---------------------------- MODULE Spec2Model ----------------------------
(***************************************************************************)
(* Identical code folding (icf_sections) and relocation processing         *)
(* (scan_relocations, copy_buf and the two appliers) of the linker, as a   *)
(* state machine over a bounded set of object files and input sections.    *)
(*                                                                         *)
(* Conventions.                                                            *)
(*  - An input section is a number 1..NumSecs; NullSec is nullptr.  File   *)
(*    FileOf(s) owns s at ELF section index get_section_idx(s).            *)
(*  - Indices kept by the program (icf_idx, edges, edge_indices, r_sym)    *)
(*    are 0-based as in the C++ code; a TLA+ sequence holding a C++ vector *)
(*    is read at index + 1.                                                *)
(*  - A digest is the sequence of words absorbed by SHA-256.  The hash     *)
(*    is modelled as collision-free: digest_final is injective.            *)
(*  - A u64 is a sequence of eight bytes, least significant first; the    *)
(*    output buffer is a sequence of bytes per input section.              *)
(***************************************************************************)
EXTENDS Integers, Sequences, FiniteSets, TLC

(***************************************************************************)
(* Bounds of the model.                                                    *)
(***************************************************************************)
NumFiles == 2
NumSecs == 5
NumNames == 2
NumGroups == 2

Files == 1..NumFiles
Secs == 1..NumSecs
Names == 1..NumNames
Groups == 1..NumGroups

(***************************************************************************)
(* Program constants.                                                      *)
(***************************************************************************)
NullSec == 0
NoFrag == 0
SHF_WRITE == 1
SHF_ALLOC == 2
SHF_EXECINSTR == 4
R_X86_64_PLT32 == 4
R_X86_64_NONE == 0
R_X86_64_64 == 1
R_X86_64_PC32 == 2
R_X86_64_GOT32 == 3
R_X86_64_RELATIVE == 8
R_X86_64_GOTPCREL == 9
R_X86_64_32 == 10
R_X86_64_32S == 11
R_X86_64_16 == 12
R_X86_64_PC16 == 13
R_X86_64_8 == 14
R_X86_64_PC8 == 15
R_X86_64_DTPOFF64 == 17
R_X86_64_TPOFF64 == 18
R_X86_64_TLSGD == 19
R_X86_64_TLSLD == 20
R_X86_64_DTPOFF32 == 21
R_X86_64_GOTTPOFF == 22
R_X86_64_TPOFF32 == 23
R_X86_64_PC64 == 24
R_X86_64_GOTPC32 == 26
R_X86_64_GOTPCRELX == 41
R_X86_64_REX_GOTPCRELX == 42
\* sizeof(ElfRela)
ElfRelaSize == 24

HasFlag(flags, bit) == (flags \div bit) % 2 = 1

(***************************************************************************)
(* Layout of the object files: the sections of the program are dealt to    *)
(* the files round-robin, so that every file owns sections and classes of  *)
(* equal sections span files.                                              *)
(***************************************************************************)
FileOf(s) == ((s - 1) % NumFiles) + 1
get_section_idx(s) == ((s - 1) \div NumFiles) + 1
SecsOf(f) == {s \in Secs : FileOf(s) = f}
SecAt(f, j) == (j - 1) * NumFiles + f

(***************************************************************************)
(* Symbols.  Every section s has a local STT_SECTION symbol LocalSym(s)    *)
(* in its file and a global function symbol GlobalSym(s); AbsSym is a      *)
(* global absolute symbol, FragSym a global symbol defined by a section    *)
(* fragment, NullSymOf(f) the first (null) symbol entry of file f.         *)
(***************************************************************************)
GlobalSym(s) == s
LocalSym(s) == NumSecs + s
AbsSym == 2 * NumSecs + 1
FragSym == 2 * NumSecs + 2
NullSymOf(f) == 2 * NumSecs + 2 + f
Syms == 1..(2 * NumSecs + 2 + NumFiles)

\* ObjectFile::symbols: the null entry, the locals, then the globals.
symbols(f) ==
  <<NullSymOf(f)>> \o [i \in 1..Cardinality(SecsOf(f)) |-> LocalSym(SecAt(f, i))]
    \o [i \in 1..NumSecs |-> GlobalSym(i)] \o <<AbsSym, FragSym>>

\* The index (0-based) of symbol sym in file f's symbol table.
SymIdx(f, sym) == (CHOOSE i \in 1..Len(symbols(f)) : symbols(f)[i] = sym) - 1

sym_frag(sym) == IF sym = FragSym THEN 1 ELSE NoFrag
sym_value(sym) == 0
FragData(frag) == <<7, frag>>

VARIABLES
  priority,            \* ObjectFile::priority of every file
  isec,                \* the input sections as parsed: header, name, contents, relocations
  obj_sections,        \* ObjectFile::sections: per file, slot j holds the section or NullSec
  sym_input_section,   \* Symbol::input_section of every symbol
  leader,              \* InputSection::leader
  icf_idx,             \* InputSection::icf_idx
  pc,                  \* the phase icf_sections is in
  sections,            \* icf_sections: the eligible sections, in icf_idx order
  digests,             \* icf_sections: the two digest slots
  slot,                \* icf_sections: the current slot
  edge_indices,        \* icf_sections: start of every node's edges in `edges'
  edges,               \* icf_sections: the flat edge array
  num_classes,         \* icf_sections: class count of the previous round
  entries,             \* icf_sections: the merge entries, sorted by (digest, priority)
  rewritten,           \* the files whose symbol-rewriting worker has finished
  run,                 \* which run of icf_sections this is
  first_run,           \* the folding left by the first run
  config,              \* config.pie and config.relax
  sym_attr,            \* Symbol: file, is_placeholder, is_imported, st_type, dynsym_idx
  sym_flags,           \* Symbol::flags, the demand flags set by the scanner
  layout,              \* the addresses fixed by layout
  rel_types,           \* InputSection::rel_types
  num_dynrel,          \* ObjectFile::num_dynrel
  reldyn_offset,       \* InputSection::reldyn_offset
  errors,              \* the errors reported so far
  scan_pos,            \* per file: the slot and the relocation its scanner is at
  buf,                 \* out::buf: the slice of every input section
  reldyn,              \* out::buf: the part of .rela.dyn of every file
  copied,              \* the sections copy_buf has returned for
  app,                 \* the applier's section, i, ref_idx and dynrel
  scanned,             \* history: the relocations <<s, i>> the scanner's loop ran on
  applied,             \* history: the relocations <<s, i>> an applier's loop ran on
  esyms,               \* ObjectFile::elf_syms: per file, the ELF symbol of every global name
  is_in_archive,       \* ObjectFile::is_in_archive
  gsym,                \* the interned Symbol of every name: file, is_placeholder, is_weak
  mu,                  \* Symbol::mu: the file whose thread holds the lock, or 0
  resolve_pos,         \* per file: the index its loop over the global symbols is at
  is_alive,            \* ObjectFile::is_alive
  feeder,              \* the items added to the work-feeder, with the progress of each
  comdat_groups,       \* ObjectFile::comdat_groups: per file, the pairs (group, section_idx)
  group_file,          \* ComdatGroup::file: the owner of every group, or 0
  group_section_idx,   \* ComdatGroup::section_idx
  group_mu,            \* ComdatGroup::mu: the file whose thread holds the lock, or 0
  comdat_pos,          \* per file: where eliminate_duplicate_comdat_groups is, and its locals
  removed              \* history: per file and group, the calls of remove_comdat_members

\* The variables of relocation scanning and applying.
reloc_vars == <<config, sym_attr, sym_flags, layout, rel_types, num_dynrel,
                reldyn_offset, errors, scan_pos, buf, reldyn, copied, app,
                scanned, applied>>

\* The variables of symbol resolution and of archive liveness marking, and
\* those of comdat group elimination.
resolve_vars == <<esyms, is_in_archive, gsym, mu, resolve_pos, is_alive, feeder>>
comdat_vars == <<comdat_groups, group_file, group_section_idx, group_mu, comdat_pos,
                 removed>>
front_vars == <<resolve_vars, comdat_vars>>

vars == <<priority, isec, obj_sections, sym_input_section, leader, icf_idx, pc,
          sections, digests, slot, edge_indices, edges, num_classes, entries,
          rewritten, run, first_run, reloc_vars, front_vars>>

(***************************************************************************)
(* is_c_identifier (object_file.cc).  A name is a sequence of characters.  *)
(***************************************************************************)
Alpha == {"a", "b", "c", "d", "e", "f", "g", "i", "n", "t", "x"}
Digit == {"0", "1", "2", "3", "4", "5", "6", "7", "8", "9"}
isalpha(c) == c \in Alpha
isalnum(c) == c \in Alpha \cup Digit

is_c_identifier(name) ==
  IF name = <<>> THEN FALSE
  ELSE IF ~isalpha(name[1]) /\ name[1] # "_" THEN FALSE
  ELSE \A i \in 2..Len(name) : isalnum(name[i]) \/ name[i] = "_"

(***************************************************************************)
(* is_eligible (ICF).                                                      *)
(***************************************************************************)
\* is_eligible without the is_init test.
is_eligible_no_init_check(s) ==
  LET is_alloc == HasFlag(isec[s].sh_flags, SHF_ALLOC)
      is_executable == HasFlag(isec[s].sh_flags, SHF_EXECINSTR)
      is_writable == HasFlag(isec[s].sh_flags, SHF_WRITE)
      is_bss == (isec[s].sh_type = "SHT_NOBITS")
      is_fini == (isec[s].sh_type = "SHT_FINI_ARRAY" \/ isec[s].name = <<".", "f", "i", "n", "i">>)
      is_enumerable == is_c_identifier(isec[s].name)
  IN is_alloc /\ is_executable /\ ~is_writable /\ ~is_bss /\ ~is_fini /\ ~is_enumerable

\* is_eligible.
is_eligible(s) ==
  LET is_alloc == HasFlag(isec[s].sh_flags, SHF_ALLOC)
      is_executable == HasFlag(isec[s].sh_flags, SHF_EXECINSTR)
      is_writable == HasFlag(isec[s].sh_flags, SHF_WRITE)
      is_bss == (isec[s].sh_type = "SHT_NOBITS")
      is_init == (isec[s].sh_type = "SHT_INIT_ARRAY" \/ isec[s].name = <<".", "i", "n", "i", "t">>)
      is_fini == (isec[s].sh_type = "SHT_FINI_ARRAY" \/ isec[s].name = <<".", "f", "i", "n", "i">>)
      is_enumerable == is_c_identifier(isec[s].name)
  IN is_alloc /\ is_executable /\ ~is_writable /\ ~is_bss /\
     ~is_init /\ ~is_fini /\ ~is_enumerable

(***************************************************************************)
(* Digests.  SHA256_Update appends to the absorbed input; digest_final     *)
(* (SHA-256 truncated to HASH_SIZE bytes) is modelled as an injective      *)
(* function of the absorbed input, namely that input itself.               *)
(***************************************************************************)
hash_i64(ctx, val) == Append(ctx, val)
hash_string(ctx, str) == hash_i64(ctx, Len(str)) \o str
digest_final(ctx) == ctx

\* The hash_symbol lambda of compute_digest; symsec is Symbol::input_section
\* of every symbol at the time of the call.
hash_symbol(ctx, sym, symsec) ==
  LET tagged ==
        IF sym_frag(sym) # NoFrag
          THEN hash_string(hash_i64(ctx, 2), FragData(sym_frag(sym)))
        ELSE IF symsec[sym] = NullSec THEN hash_i64(ctx, 3)
        ELSE hash_i64(ctx, 4)
  IN hash_i64(tagged, sym_value(sym))

\* The loop of compute_digest over the relocations, from relocation i
\* (1-based) on, ref_idx fragment references having been consumed.
RECURSIVE HashRels(_, _, _, _, _)
HashRels(ctx, s, i, ref_idx, symsec) ==
  IF i > Len(isec[s].rels) THEN ctx
  ELSE LET rel == isec[s].rels[i]
           c3 == hash_i64(hash_i64(hash_i64(ctx, rel.r_offset), rel.r_type), rel.r_addend)
       IN IF isec[s].has_fragments[i]
            THEN LET ref == isec[s].rel_fragments[ref_idx + 1]
                 IN HashRels(hash_string(hash_i64(hash_i64(c3, 1), ref.addend),
                                         FragData(ref.frag)),
                             s, i + 1, ref_idx + 1, symsec)
            ELSE HashRels(hash_symbol(c3, symbols(FileOf(s))[rel.r_sym + 1], symsec),
                          s, i + 1, ref_idx, symsec)

\* compute_digest; the sections of the model carry no FDE records.
compute_digest(s, symsec) ==
  LET c1 == hash_string(<<>>, isec[s].contents)
      c2 == hash_i64(c1, isec[s].sh_flags)
      c3 == hash_i64(c2, 0)
      c4 == hash_i64(c3, Len(isec[s].rels))
  IN digest_final(HashRels(c4, s, 1, 0, symsec))

\* pack_number((i << 32) | j): the two halves of the packed word, after a
\* marker no SHA digest of the model starts with.
pack_number(i, j) == <<-1, i, j>>

\* operator< of Digest (std::array): lexicographic.
RECURSIVE DigestLessFrom(_, _, _)
DigestLessFrom(a, b, i) ==
  IF i > Len(b) THEN FALSE
  ELSE IF i > Len(a) THEN TRUE
  ELSE IF a[i] # b[i] THEN a[i] < b[i]
  ELSE DigestLessFrom(a, b, i + 1)

DigestLess(a, b) == DigestLessFrom(a, b, 1)

(***************************************************************************)
(* 64-bit words.  A u64 is the sequence of its eight bytes, least          *)
(* significant first; i64 values are their two's complement.               *)
(***************************************************************************)
Bytes8 == 1..8

\* The word of a natural number below 2^31.
U64(n) == [k \in Bytes8 |-> IF k <= 4 THEN (n \div (256 ^ (k - 1))) % 256 ELSE 0]

\* a + b + carry, modulo 2^64, from byte k on.
RECURSIVE AddFrom(_, _, _, _)
AddFrom(a, b, k, carry) ==
  IF k > 8 THEN <<>>
  ELSE LET sum == a[k] + b[k] + carry
       IN <<sum % 256>> \o AddFrom(a, b, k + 1, sum \div 256)

U64Add(a, b) == AddFrom(a, b, 1, 0)
U64Neg(a) == AddFrom([k \in Bytes8 |-> 255 - a[k]], U64(0), 1, 1)
U64Sub(a, b) == U64Add(a, U64Neg(b))

\* The word of an i64 of magnitude below 2^31.
I64(n) == IF n >= 0 THEN U64(n) ELSE U64Neg(U64(-n))

\* (uN)val and (iN)val converted back to u64, for N = 8 * w.
ZeroExtend(val, w) == [k \in Bytes8 |-> IF k <= w THEN val[k] ELSE 0]
SignExtend(val, w) ==
  [k \in Bytes8 |-> IF k <= w THEN val[k] ELSE IF val[w] >= 128 THEN 255 ELSE 0]

(***************************************************************************)
(* Symbols as the relocation code sees them, and the state of the          *)
(* relocation code before it has run.                                      *)
(***************************************************************************)
DefinedFunc == [file |-> TRUE, is_placeholder |-> FALSE, is_imported |-> FALSE,
                st_type |-> "STT_FUNC", dynsym_idx |-> 0]

NoLayout == [sym_addr |-> U64(0), plt_addr |-> U64(0), frag_addr |-> U64(0),
             got_addr |-> U64(0), got |-> U64(0), tlsgd_addr |-> U64(0),
             tlsld_addr |-> U64(0), gottpoff_addr |-> U64(0),
             tls_begin |-> U64(0), tls_end |-> U64(0), sh_addr |-> U64(0)]

NoApp == [sec |-> NullSec, i |-> 0, ref_idx |-> 0, dynrel |-> 0]

\* The first slot of file f from slot j on that holds a section: the loop of
\* ObjectFile::scan_relocations passes over the null slots.
NextSlot(objs, f, j) ==
  LET held == {k \in j..Len(objs[f]) : objs[f][k] # NullSec}
  IN IF held = {} THEN Len(objs[f]) + 1 ELSE CHOOSE k \in held : \A m \in held : k <= m

\* Nothing scanned, laid out or copied.
RelocInit ==
  /\ sym_flags = [y \in Syms |-> {}]
  /\ rel_types = [s \in Secs |-> <<>>]
  /\ num_dynrel = [f \in Files |-> 0]
  /\ reldyn_offset = [s \in Secs |-> 0]
  /\ errors = {}
  /\ scan_pos = [f \in Files |-> [j |-> NextSlot(obj_sections, f, 1), i |-> -1]]
  /\ scanned = {}
  /\ applied = {}
  /\ buf = [s \in Secs |-> <<>>]
  /\ reldyn = [f \in Files |-> <<>>]
  /\ copied = {}
  /\ app = NoApp

(***************************************************************************)
(* The inputs.  A program is the set of section slots that hold a section  *)
(* and the parsed form of every section.  Three bounded families:          *)
(*   GraphPrograms      one writable data section and NumSecs - 1 text     *)
(*                      sections of equal bytes, each with at most one     *)
(*                      relocation, to itself or to a neighbour;           *)
(*   AttributePrograms  one section with any combination of header flags,  *)
(*                      type, name and size, beside at most one plain text *)
(*                      section, without relocations;                      *)
(*   PositionPrograms   three text sections of two relocations each, to    *)
(*                      sections, to an absolute symbol or to fragments.   *)
(***************************************************************************)
PrevSec(s) == IF s = 1 THEN NumSecs ELSE s - 1
NextSec(s) == IF s = NumSecs THEN 1 ELSE s + 1

TargetSym(s, tgt) ==
  CASE tgt = "self" -> LocalSym(s)
    [] tgt = "prev" -> GlobalSym(PrevSec(s))
    [] tgt = "next" -> GlobalSym(NextSec(s))
    [] tgt = "fragsym" -> FragSym
    [] OTHER -> AbsSym

MkRel(s, i, tgt) ==
  [r_offset |-> 8 * i, r_type |-> R_X86_64_PLT32,
   r_sym |-> SymIdx(FileOf(s), TargetSym(s, tgt)), r_addend |-> -4]

MkSec(s, flags, type, name, contents, pat) ==
  [sh_flags |-> flags, sh_type |-> type, name |-> name, contents |-> contents,
   rels |-> [i \in 1..Len(pat) |-> MkRel(s, i, pat[i])],
   has_fragments |-> [i \in 1..Len(pat) |-> pat[i] = "fragref"],
   rel_fragments |-> [i \in 1..Cardinality({k \in 1..Len(pat) : pat[k] = "fragref"})
                        |-> [frag |-> 1, addend |-> 0]]]

TextName == <<".", "t", "e", "x", "t", ".", "f">>
DataName == <<".", "d", "a", "t", "a">>
TextSec(s, contents, pat) ==
  MkSec(s, SHF_ALLOC + SHF_EXECINSTR, "SHT_PROGBITS", TextName, contents, pat)
DataSec(s) == MkSec(s, SHF_ALLOC + SHF_WRITE, "SHT_PROGBITS", DataName, <<1>>, <<>>)

GraphPatterns == {<<>>, <<"self">>, <<"prev">>, <<"next">>}

GraphPrograms ==
  {[present |-> Secs,
    sec |-> [s \in Secs |-> IF s = 1 THEN DataSec(s) ELSE TextSec(s, <<1>>, pat[s])]]
     : pat \in [Secs \ {1} -> GraphPatterns]}

FlagSets == {w + a + x : w \in {0, SHF_WRITE}, a \in {0, SHF_ALLOC}, x \in {0, SHF_EXECINSTR}}
SecTypes == {"SHT_PROGBITS", "SHT_NOBITS", "SHT_INIT_ARRAY", "SHT_FINI_ARRAY"}
SecNames == {TextName, <<".", "i", "n", "i", "t">>, <<".", "f", "i", "n", "i">>,
             <<"_", "f", "1">>, <<"f", "_">>, <<"f", ".", "1">>, <<"1", "f">>, <<>>}
SecContents == {<<>>, <<1>>}
PlainOptions == {"absent", "text", "empty"}

AttributePrograms ==
  {[present |-> {1} \cup {s \in {2} : opt # "absent"},
    sec |-> [s \in Secs |->
               IF s = 1 THEN MkSec(s, fl, ty, nm, co, <<>>)
               ELSE IF s = 2 /\ opt = "empty" THEN TextSec(s, <<>>, <<>>)
               ELSE TextSec(s, <<1>>, <<>>)]]
     : fl \in FlagSets, ty \in SecTypes, nm \in SecNames, co \in SecContents,
       opt \in PlainOptions}

PositionPatterns == {<<"abs", "self">>, <<"self", "abs">>, <<"fragref", "self">>,
                     <<"fragsym", "self">>, <<"self", "prev">>, <<"prev", "self">>}

PositionPrograms ==
  {[present |-> {1, 2, 3},
    sec |-> [s \in Secs |-> IF s \in {1, 2, 3} THEN TextSec(s, <<1>>, pat[s])
                            ELSE TextSec(s, <<1>>, <<>>)]]
     : pat \in [{1, 2, 3} -> PositionPatterns]}

Programs == GraphPrograms \cup AttributePrograms \cup PositionPrograms

\* Command-line order and its reverse: priority need not follow out::objs.
Priorities == {[f \in Files |-> f], [f \in Files |-> NumFiles + 1 - f]}

NoFolding == [ldr |-> [s \in Secs |-> NullSec], syms |-> [y \in Syms |-> NullSec],
              objs |-> [f \in Files |-> <<>>]]

\* initialize_symbols and symbol resolution: the symbols of a section that
\* is there are bound to it, every other symbol has no input section.
ParsedSymbols(present) ==
  [y \in Syms |->
     IF y \in Secs /\ y \in present THEN y
     ELSE IF y - NumSecs \in Secs /\ y - NumSecs \in present THEN y - NumSecs
     ELSE NullSec]

\* initialize_sections: slot j of file f holds its j-th section if the
\* section is there.
ParsedSections(present) ==
  [f \in Files |-> [j \in 1..Cardinality(SecsOf(f)) |->
     IF SecAt(f, j) \in present THEN SecAt(f, j) ELSE NullSec]]

\* Symbol resolution and liveness marking are over, and are left out.
NoSymbol == [file |-> 0, is_placeholder |-> FALSE, is_weak |-> FALSE]
ResolveIdle ==
  /\ esyms = [f \in Files |-> [n \in Names |-> "undef"]]
  /\ is_in_archive = [f \in Files |-> FALSE]
  /\ gsym = [n \in Names |-> NoSymbol]
  /\ mu = [n \in Names |-> 0]
  /\ resolve_pos = [f \in Files |-> NumNames]
  /\ is_alive = [f \in Files |-> TRUE]
  /\ feeder = <<>>

\* No file has a comdat group.
NoElection == [k |-> 1, at |-> "peek", file |-> 0, idx |-> 0]
ComdatIdle ==
  /\ comdat_groups = [f \in Files |-> <<>>]
  /\ group_file = [g \in Groups |-> 0]
  /\ group_section_idx = [g \in Groups |-> 0]
  /\ group_mu = [g \in Groups |-> 0]
  /\ comdat_pos = [f \in Files |-> NoElection]
  /\ removed = [f \in Files |-> [g \in Groups |-> 0]]

FrontIdle == ResolveIdle /\ ComdatIdle

\* The state icf_sections is called in, for a family of programs and of
\* priority assignments.
InitOf(progs, prios) ==
  /\ priority \in prios
  /\ \E prog \in progs :
       /\ isec = prog.sec
       /\ obj_sections = ParsedSections(prog.present)
       /\ sym_input_section = ParsedSymbols(prog.present)
  /\ leader = [s \in Secs |-> NullSec]
  /\ icf_idx = [s \in Secs |-> -1]
  /\ pc = "gather"
  /\ sections = <<>>
  /\ digests = <<<<>>, <<>>>>
  /\ slot = 0
  /\ edge_indices = <<>>
  /\ edges = <<>>
  /\ num_classes = 0
  /\ entries = <<>>
  /\ rewritten = {}
  /\ run = 1
  /\ first_run = NoFolding
  /\ config = [pie |-> FALSE, relax |-> FALSE]
  /\ sym_attr = [y \in Syms |-> DefinedFunc]
  /\ layout = NoLayout
  /\ RelocInit
  /\ FrontIdle

Init == InitOf(Programs, Priorities)

(***************************************************************************)
(* gather_sections.                                                        *)
(***************************************************************************)
\* The sections a file still holds (the non-null slots of ObjectFile::sections).
LiveSecs(objs) == UNION {{objs[f][j] : j \in 1..Len(objs[f])} : f \in Files} \ {NullSec}

\* Entry::digest as filled in by gather_sections.
EntryDigest(s, symsec) ==
  IF is_eligible(s) THEN compute_digest(s, symsec)
  ELSE pack_number(FileOf(s) - 1, get_section_idx(s))

\* `entries' as filled in, before the sort.
GatherEntries(objs, symsec) ==
  {[isec |-> s, digest |-> EntryDigest(s, symsec), is_eligible |-> is_eligible(s)]
     : s \in LiveSecs(objs)}

\* The comparator of the first parallel_sort.
EntryLess(a, b) ==
  IF ~a.is_eligible \/ ~b.is_eligible THEN a.is_eligible /\ ~b.is_eligible
  ELSE DigestLess(a.digest, b.digest)

\* tbb::parallel_sort is not stable: every arrangement of the entries S the
\* comparator allows is an outcome.
RECURSIVE SortOutcomes(_)
SortOutcomes(S) ==
  IF S = {} THEN {<<>>}
  ELSE UNION {{<<x>> \o p : p \in SortOutcomes(S \ {x})}
                : x \in {y \in S : \A z \in S : ~EntryLess(z, y)}}

\* The sections the non-fragment relocations of s lead to, in relocation order.
RECURSIVE EdgeTargetsFrom(_, _, _)
EdgeTargetsFrom(s, j, symsec) ==
  IF j > Len(isec[s].rels) THEN <<>>
  ELSE LET sym == symbols(FileOf(s))[isec[s].rels[j].r_sym + 1]
           rest == EdgeTargetsFrom(s, j + 1, symsec)
       IN IF ~isec[s].has_fragments[j] /\ sym_frag(sym) = NoFrag /\ symsec[sym] # NullSec
            THEN <<symsec[sym]>> \o rest
            ELSE rest

EdgeTargets(s, symsec) == EdgeTargetsFrom(s, 1, symsec)

RECURSIVE Concat(_, _)
Concat(seqs, i) == IF i > Len(seqs) THEN <<>> ELSE seqs[i] \o Concat(seqs, i + 1)

RECURSIVE SumTo(_, _)
SumTo(f, n) == IF n = 0 THEN 0 ELSE f[n] + SumTo(f, n - 1)

\* gather_sections from the sort on, the sort having left `entries' as ents.
gather_sections(ents, symsec, idx) ==
  LET num_eligibles == Cardinality({i \in 1..Len(ents) : ents[i].is_eligible})
      secs == [i \in 1..num_eligibles |-> ents[i].isec]
      newidx == [s \in Secs |->
                   IF \E i \in 1..Len(ents) : ents[i].isec = s
                     THEN (CHOOSE i \in 1..Len(ents) : ents[i].isec = s) - 1
                     ELSE idx[s]]
      num_edges == [i \in 1..num_eligibles |-> Len(EdgeTargets(secs[i], symsec))]
  IN [sections |-> secs,
      digests |-> [i \in 1..Len(ents) |-> ents[i].digest],
      icf_idx |-> newidx,
      edge_indices |-> [i \in 1..num_eligibles |-> SumTo(num_edges, i - 1)],
      edges |-> Concat([i \in 1..num_eligibles |->
                          LET tg == EdgeTargets(secs[i], symsec)
                          IN [k \in 1..Len(tg) |-> newidx[tg[k]]]], 1)]

(***************************************************************************)
(* The propagation rounds.                                                 *)
(***************************************************************************)
\* The count_num_classes lambda: adjacent pairs of the first n digests that differ.
count_num_classes(d, n) == Cardinality({i \in 0..(n - 2) : d[i + 1] # d[i + 2]})

\* SHA256_Update with a digest: HASH_SIZE bytes in the program; the digests of
\* the model differ in length, so each is absorbed with its length.
hash_digest(ctx, d) == hash_string(ctx, d)

\* The inner loop of a round, were it to absorb the edges' indices and not
\* the digests found at them.
RECURSIVE HashEdgesByIndex(_, _, _, _, _)
HashEdgesByIndex(ctx, d, ed, j, end) ==
  IF j >= end THEN ctx ELSE HashEdgesByIndex(hash_i64(ctx, ed[j + 1]), d, ed, j + 1, end)

\* The inner loop of a round: the digests of the edges' targets, in order.
RECURSIVE HashEdges(_, _, _, _, _)
HashEdges(ctx, d, ed, j, end) ==
  IF j >= end THEN ctx ELSE HashEdges(hash_digest(ctx, d[ed[j + 1] + 1]), d, ed, j + 1, end)

\* The body of the round's parallel_for, were the context not to absorb the
\* node's own digest before the digests of its edges.
round_digest_edges_only(d, i, n, ei, ed) ==
  LET begin == ei[i + 1]
      end == IF i + 1 = n THEN Len(ed) ELSE ei[i + 2]
  IN digest_final(HashEdges(<<>>, d, ed, begin, end))

\* The body of the round's parallel_for for node i (0-based).
round_digest(d, i, n, ei, ed) ==
  LET begin == ei[i + 1]
      end == IF i + 1 = n THEN Len(ed) ELSE ei[i + 2]
  IN digest_final(HashEdges(hash_digest(<<>>, d[i + 1]), d, ed, begin, end))

\* One round: the slot written, given the slot read (cur) and the slot
\* written as it was (other).
propagate_round(cur, other, n, ei, ed) ==
  [i \in 1..Len(cur) |-> IF i <= n THEN round_digest(cur, i - 1, n, ei, ed) ELSE other[i]]

\* The loop `for (;;)': the digests of the slot the loop exits with.
RECURSIVE RunRounds(_, _, _, _, _, _)
RunRounds(cur, other, nc, n, ei, ed) ==
  LET new == propagate_round(cur, other, n, ei, ed)
      cnt == count_num_classes(new, n)
  IN IF cnt = nc THEN new ELSE RunRounds(new, cur, cnt, n, ei, ed)

(***************************************************************************)
(* The merge.                                                              *)
(***************************************************************************)
\* The halves of the priority word the other way round: section index high,
\* file priority low.
get_priority_idx_first(s) == <<get_section_idx(s), priority[FileOf(s)]>>

\* InputChunk::get_priority: ((i64)file->priority << 32) | get_section_idx(),
\* kept as the pair of its two halves; pairs compare as the packed words do.
get_priority(s) == <<priority[FileOf(s)], get_section_idx(s)>>

PriorityLess(p, q) == p[1] < q[1] \/ (p[1] = q[1] /\ p[2] < q[2])

\* The comparator of the second parallel_sort.
MergeLess(a, b) ==
  IF a.digest # b.digest THEN DigestLess(a.digest, b.digest)
  ELSE PriorityLess(get_priority(a.isec), get_priority(b.isec))

RECURSIVE SortEntries(_)
SortEntries(S) ==
  IF S = {} THEN <<>>
  ELSE LET x == CHOOSE y \in S : \A z \in S \ {y} : ~MergeLess(z, y)
       IN <<x>> \o SortEntries(S \ {x})

merge_entries(secs, d) ==
  SortEntries({[isec |-> secs[i], digest |-> d[i]] : i \in 1..Len(secs)})

\* The labelling, were every entry of a run led by the entry before it.
label_leaders_chain(ents, old) ==
  [s \in Secs |->
     IF \E j \in 2..Len(ents) : ents[j].isec = s /\ ents[j - 1].digest = ents[j].digest
       THEN ents[(CHOOSE j \in 2..Len(ents) : ents[j].isec = s) - 1].isec
       ELSE old[s]]

\* The labelling parallel_for over i in [0, entries.size() - 1): the worker of
\* a run's first entry sets the leader of the entries that follow it in the run.
label_leaders(ents, old) ==
  LET RunStart(i) == i = 1 \/ ents[i - 1].digest # ents[i].digest
      Led(i, j) == /\ i < j
                   /\ RunStart(i)
                   /\ \A k \in (i + 1)..j : ents[k].digest = ents[i].digest
  IN [s \in Secs |->
        IF \E j \in 1..Len(ents), i \in 1..(Len(ents) - 1) : ents[j].isec = s /\ Led(i, j)
          THEN LET j == CHOOSE j \in 1..Len(ents) : ents[j].isec = s
               IN ents[CHOOSE i \in 1..(Len(ents) - 1) : Led(i, j)].isec
          ELSE old[s]]

\* The symbol loop, were it to start after the file's local symbols.
rewrite_symbols_globals_only(f, symsec, ldr) ==
  [y \in Syms |->
     IF /\ \E i \in (Cardinality(SecsOf(f)) + 2)..Len(symbols(f)) : symbols(f)[i] = y
        /\ symsec[y] # NullSec
        /\ ldr[symsec[y]] # NullSec
       THEN ldr[symsec[y]]
       ELSE symsec[y]]

\* The symbol loop of one file's worker.
rewrite_symbols(f, symsec, ldr) ==
  [y \in Syms |->
     IF /\ \E i \in 1..Len(symbols(f)) : symbols(f)[i] = y
        /\ symsec[y] # NullSec
        /\ ldr[symsec[y]] # NullSec
       THEN ldr[symsec[y]]
       ELSE symsec[y]]

\* ObjectFile::kill(idx): the slot of the section becomes null.
kill(objs, f, idx) == [objs EXCEPT ![f][idx] = NullSec]

RECURSIVE KillAll(_, _, _, _)
KillAll(objs, ents, i, ldr) ==
  IF i > Len(ents) THEN objs
  ELSE LET s == ents[i].isec
       IN KillAll(IF ldr[s] # NullSec THEN kill(objs, FileOf(s), get_section_idx(s)) ELSE objs,
                  ents, i + 1, ldr)

(***************************************************************************)
(* icf_sections, one action per phase.                                     *)
(***************************************************************************)
\* The outcomes of the first sort on the sections the files hold.
GatherOrders(objs, symsec) == SortOutcomes(GatherEntries(objs, symsec))

\* The eligible sections with an edge to a section no file holds any more:
\* gather_sections numbers only the sections the files hold, so that the
\* target's icf_idx is -1 when the edges are filled in.
UnnumberedTargets(objs, symsec) ==
  {s \in LiveSecs(objs) :
     /\ is_eligible(s)
     /\ \E k \in 1..Len(EdgeTargets(s, symsec)) :
          EdgeTargets(s, symsec)[k] \notin LiveSecs(objs)}

\* gather_sections, digests[1] = digests[0], and the first count_num_classes.
Gather ==
  /\ pc = "gather"
  /\ {s \in LiveSecs(obj_sections) : is_eligible(s)} # {}
  /\ UnnumberedTargets(obj_sections, sym_input_section) = {}
  /\ \E ord \in GatherOrders(obj_sections, sym_input_section) :
       LET g == gather_sections(ord, sym_input_section, icf_idx)
       IN /\ sections' = g.sections
          /\ digests' = <<g.digests, g.digests>>
          /\ icf_idx' = g.icf_idx
          /\ edge_indices' = g.edge_indices
          /\ edges' = g.edges
          /\ num_classes' = count_num_classes(g.digests, Len(g.sections))
  /\ slot' = 0
  /\ pc' = "propagate"
  /\ UNCHANGED <<priority, isec, obj_sections, sym_input_section, leader, entries,
                 rewritten, run, first_run>>
  /\ UNCHANGED reloc_vars
  /\ UNCHANGED front_vars

\* No section is eligible: num_edges is empty, `i < num_edges.size() - 1'
\* compares against the unsigned maximum, and the loop writes past the
\* empty edge_indices. What follows is undefined.
GatherNoEligible ==
  /\ pc = "gather"
  /\ {s \in LiveSecs(obj_sections) : is_eligible(s)} = {}
  /\ pc' = "undefined"
  /\ UNCHANGED <<priority, isec, obj_sections, sym_input_section, leader, icf_idx,
                 sections, digests, slot, edge_indices, edges, num_classes, entries,
                 rewritten, run, first_run>>
  /\ UNCHANGED reloc_vars
  /\ UNCHANGED front_vars

\* One iteration of `for (;;)'.
PropagateRound ==
  /\ pc = "propagate"
  /\ LET new == propagate_round(digests[slot + 1], digests[2 - slot], Len(sections),
                                edge_indices, edges)
         n == count_num_classes(new, Len(sections))
     IN /\ digests' = [digests EXCEPT ![2 - slot] = new]
        /\ slot' = 1 - slot
        /\ IF n = num_classes
             THEN pc' = "merge" /\ UNCHANGED num_classes
             ELSE pc' = "propagate" /\ num_classes' = n
  /\ UNCHANGED <<priority, isec, obj_sections, sym_input_section, leader, icf_idx,
                 sections, edge_indices, edges, entries, rewritten, run, first_run>>
  /\ UNCHANGED reloc_vars
  /\ UNCHANGED front_vars

\* The merge: entries, the second sort, and the labelling.
Merge ==
  /\ pc = "merge"
  /\ entries' = merge_entries(sections, digests[slot + 1])
  /\ leader' = label_leaders(entries', leader)
  /\ pc' = "rewrite"
  /\ UNCHANGED <<priority, isec, obj_sections, sym_input_section, icf_idx, sections,
                 digests, slot, edge_indices, edges, num_classes, rewritten, run,
                 first_run>>
  /\ UNCHANGED reloc_vars
  /\ UNCHANGED front_vars

\* The worker of file f in `Re-assign input sections to symbols'.
RewriteSymbols(f) ==
  /\ pc = "rewrite"
  /\ f \notin rewritten
  /\ sym_input_section' = rewrite_symbols(f, sym_input_section, leader)
  /\ rewritten' = rewritten \cup {f}
  /\ pc' = IF rewritten' = Files THEN "kill" ELSE "rewrite"
  /\ UNCHANGED <<priority, isec, obj_sections, leader, icf_idx, sections, digests,
                 slot, edge_indices, edges, num_classes, entries, run, first_run>>
  /\ UNCHANGED reloc_vars
  /\ UNCHANGED front_vars

\* The parallel_for_each that kills the folded sections.
Kill ==
  /\ pc = "kill"
  /\ obj_sections' = KillAll(obj_sections, entries, 1, leader)
  /\ pc' = "done"
  /\ UNCHANGED <<priority, isec, sym_input_section, leader, icf_idx, sections, digests,
                 slot, edge_indices, edges, num_classes, entries, rewritten, run,
                 first_run>>
  /\ UNCHANGED reloc_vars
  /\ UNCHANGED front_vars

\* icf_sections is called again on what the first call left.
Rerun ==
  /\ pc = "done"
  /\ run = 1
  /\ first_run' = [ldr |-> leader, syms |-> sym_input_section, objs |-> obj_sections]
  /\ run' = 2
  /\ pc' = "gather"
  /\ sections' = <<>>
  /\ digests' = <<<<>>, <<>>>>
  /\ slot' = 0
  /\ edge_indices' = <<>>
  /\ edges' = <<>>
  /\ num_classes' = 0
  /\ entries' = <<>>
  /\ rewritten' = {}
  /\ UNCHANGED <<priority, isec, obj_sections, sym_input_section, leader, icf_idx>>
  /\ UNCHANGED reloc_vars
  /\ UNCHANGED front_vars

Next ==
  \/ Gather
  \/ GatherNoEligible
  \/ PropagateRound
  \/ Merge
  \/ \E f \in Files : RewriteSymbols(f)
  \/ Kill

Spec == Init /\ [][Next]_vars

\* The second run is explored, in command-line priority, on the graph
\* programs whose text sections refer to themselves or to their predecessor,
\* and on the programs of one lone section.
RerunPrograms ==
  {[present |-> Secs,
    sec |-> [s \in Secs |-> IF s = 1 THEN DataSec(s) ELSE TextSec(s, <<1>>, pat[s])]]
     : pat \in [Secs \ {1} -> {<<"self">>, <<"prev">>}]}
  \cup {[present |-> {1}, sec |-> [s \in Secs |-> IF s = 1 THEN sec1 ELSE TextSec(s, <<1>>, <<>>)]]
          : sec1 \in {TextSec(1, <<1>>, <<>>), DataSec(1)}}

InitRerun == InitOf(RerunPrograms, {[f \in Files |-> f]})

NextRerun ==
  \/ Next
  \/ Rerun

SpecRerun == InitRerun /\ [][NextRerun]_vars

(***************************************************************************)
(* scan_relocations.                                                       *)
(***************************************************************************)
\* rels[i] of section s and the symbol it names (i is 0-based).
RelAt(s, i) == isec[s].rels[i + 1]
SymAt(s, i) == symbols(FileOf(s))[RelAt(s, i).r_sym + 1]

\* `!sym.file || sym.is_placeholder'.
is_undefined(sym) == ~sym_attr[sym].file \/ sym_attr[sym].is_placeholder

\* Symbol::is_relative(): the symbol is defined in a relocatable section.
is_relative(sym) == sym_input_section[sym] # NullSec \/ sym_frag(sym) # NoFrag

\* What an iteration of the scanner's loop does, as a record: the kind
\* stored in rel_types[i] ("unset" if none is), the flags or-ed into the
\* symbol, the increment of num_dynrel, the messages reported, and the
\* extra increment of i.
Outcome(kind, flags, dyn, msgs, skip) ==
  [kind |-> kind, flags |-> flags, dynrel |-> dyn, msgs |-> msgs, skip |-> skip]

\* The two branches of `sym.flags |= is_code ? NEEDS_PLT : NEEDS_COPYREL'.
plt_or_copyrel(sym) ==
  IF ~sym_attr[sym].is_imported THEN {}
  ELSE IF sym_attr[sym].st_type = "STT_FUNC" THEN {"NEEDS_PLT"} ELSE {"NEEDS_COPYREL"}

\* The default label of the switch: the error is reported and the loop
\* goes on.
scan_unknown(s, i) == Outcome("unset", {}, 0, {"unknown relocation"}, 0)

\* The case of R_X86_64_64, were the relative branch not to count.
scan_64_uncounted(s, i, pie) ==
  LET sym == SymAt(s, i)
      is_readonly == ~HasFlag(isec[s].sh_flags, SHF_WRITE)
      pie_error == IF is_readonly THEN {"recompile with -fPIE"} ELSE {}
  IN IF pie
       THEN IF sym_attr[sym].is_imported
              THEN Outcome("R_DYN", {"NEEDS_DYNSYM"}, 1, pie_error, 0)
            ELSE IF is_relative(sym)
              THEN Outcome("R_ABS_DYN", {}, 0, pie_error, 0)
            ELSE Outcome("R_ABS", {}, 0, {}, 0)
       ELSE Outcome("R_ABS", plt_or_copyrel(sym), 0, {}, 0)

\* The case of R_X86_64_64, were an imported symbol to get NEEDS_COPYREL
\* whatever its type.
scan_64_copyrel_only(s, i, pie) ==
  LET sym == SymAt(s, i)
      is_readonly == ~HasFlag(isec[s].sh_flags, SHF_WRITE)
      pie_error == IF is_readonly THEN {"recompile with -fPIE"} ELSE {}
  IN IF pie
       THEN IF sym_attr[sym].is_imported
              THEN Outcome("R_DYN", {"NEEDS_DYNSYM"}, 1, pie_error, 0)
            ELSE IF is_relative(sym)
              THEN Outcome("R_ABS_DYN", {}, 1, pie_error, 0)
            ELSE Outcome("R_ABS", {}, 0, {}, 0)
       ELSE Outcome("R_ABS",
                    IF sym_attr[sym].is_imported THEN {"NEEDS_COPYREL"} ELSE {}, 0, {}, 0)

\* The case of R_X86_64_64.
scan_64(s, i, pie) ==
  LET sym == SymAt(s, i)
      is_readonly == ~HasFlag(isec[s].sh_flags, SHF_WRITE)
      pie_error == IF is_readonly THEN {"recompile with -fPIE"} ELSE {}
  IN IF pie
       THEN IF sym_attr[sym].is_imported
              THEN Outcome("R_DYN", {"NEEDS_DYNSYM"}, 1, pie_error, 0)
            ELSE IF is_relative(sym)
              THEN Outcome("R_ABS_DYN", {}, 1, pie_error, 0)
            ELSE Outcome("R_ABS", {}, 0, {}, 0)
       ELSE Outcome("R_ABS", plt_or_copyrel(sym), 0, {}, 0)

\* `i + 1 == rels.size() || rels[i + 1].r_type != R_X86_64_PLT32'.
not_followed_by_plt32(s, i) ==
  i + 1 = Len(isec[s].rels) \/ RelAt(s, i + 1).r_type # R_X86_64_PLT32

\* The cases of R_X86_64_TLSGD and R_X86_64_TLSLD, were the relaxed branches
\* not to increment i.
scan_tls_no_skip(s, i) ==
  LET sym == SymAt(s, i)
      imported == sym_attr[sym].is_imported
  IN IF RelAt(s, i).r_type = R_X86_64_TLSGD
       THEN LET msgs == IF not_followed_by_plt32(s, i)
                          THEN {"TLSGD reloc not followed by PLT32"} ELSE {}
            IN IF config.relax /\ ~imported
                 THEN Outcome("R_TLSGD_RELAX_LE", {}, 0, msgs, 0)
                 ELSE Outcome("R_TLSGD", {"NEEDS_TLSGD", "NEEDS_DYNSYM"}, 0, msgs, 0)
       ELSE LET msgs == (IF not_followed_by_plt32(s, i)
                           THEN {"TLSLD reloc not followed by PLT32"} ELSE {})
                        \cup (IF imported THEN {"TLSLD reloc refers external symbol"} ELSE {})
            IN IF config.relax
                 THEN Outcome("R_TLSLD_RELAX_LE", {}, 0, msgs, 0)
                 ELSE Outcome("R_TLSLD", {"NEEDS_TLSLD"}, 0, msgs, 0)

\* The cases of R_X86_64_TLSGD and R_X86_64_TLSLD.
scan_tls(s, i) ==
  LET sym == SymAt(s, i)
      imported == sym_attr[sym].is_imported
  IN IF RelAt(s, i).r_type = R_X86_64_TLSGD
       THEN LET msgs == IF not_followed_by_plt32(s, i)
                          THEN {"TLSGD reloc not followed by PLT32"} ELSE {}
            IN IF config.relax /\ ~imported
                 THEN Outcome("R_TLSGD_RELAX_LE", {}, 0, msgs, 1)
                 ELSE Outcome("R_TLSGD", {"NEEDS_TLSGD", "NEEDS_DYNSYM"}, 0, msgs, 0)
       ELSE LET msgs == (IF not_followed_by_plt32(s, i)
                           THEN {"TLSLD reloc not followed by PLT32"} ELSE {})
                        \cup (IF imported THEN {"TLSLD reloc refers external symbol"} ELSE {})
            IN IF config.relax
                 THEN Outcome("R_TLSLD_RELAX_LE", {}, 0, msgs, 1)
                 ELSE Outcome("R_TLSLD", {"NEEDS_TLSLD"}, 0, msgs, 0)

\* The undefined-symbol test of the loop, were it absent: the relocation is
\* classified by the switch.
skip_undefined_never(sym) == FALSE

\* The undefined-symbol test of the loop: the error and `continue'.
skip_undefined(sym) == is_undefined(sym)

\* One iteration of the loop of scan_relocations, at relocation i of s.
scan_reloc(s, i) ==
  LET sym == SymAt(s, i)
      ty == RelAt(s, i).r_type
      imported == sym_attr[sym].is_imported
  IN IF skip_undefined(sym) THEN Outcome("unset", {}, 0, {"undefined symbol"}, 0)
     ELSE IF ty = R_X86_64_NONE THEN Outcome("R_NONE", {}, 0, {}, 0)
     ELSE IF ty \in {R_X86_64_8, R_X86_64_16, R_X86_64_32, R_X86_64_32S}
       THEN Outcome("R_ABS", plt_or_copyrel(sym), 0,
                    IF config.pie /\ is_relative(sym) THEN {"recompile with -fPIE"} ELSE {}, 0)
     ELSE IF ty = R_X86_64_64 THEN scan_64(s, i, config.pie)
     ELSE IF ty \in {R_X86_64_PC8, R_X86_64_PC16, R_X86_64_PC32, R_X86_64_PC64}
       THEN Outcome("R_PC", plt_or_copyrel(sym), 0, {}, 0)
     ELSE IF ty = R_X86_64_GOT32 THEN Outcome("R_GOT", {"NEEDS_GOT"}, 0, {}, 0)
     ELSE IF ty = R_X86_64_GOTPC32 THEN Outcome("R_GOTPC", {"NEEDS_GOT"}, 0, {}, 0)
     ELSE IF ty \in {R_X86_64_GOTPCREL, R_X86_64_GOTPCRELX, R_X86_64_REX_GOTPCRELX}
       THEN Outcome("R_GOTPCREL", {"NEEDS_GOT"}, 0, {}, 0)
     ELSE IF ty = R_X86_64_PLT32
       THEN Outcome("R_PC",
                    IF imported \/ sym_attr[sym].st_type = "STT_GNU_IFUNC"
                      THEN {"NEEDS_PLT"} ELSE {}, 0, {}, 0)
     ELSE IF ty \in {R_X86_64_TLSGD, R_X86_64_TLSLD} THEN scan_tls(s, i)
     ELSE IF ty \in {R_X86_64_DTPOFF32, R_X86_64_DTPOFF64}
       THEN Outcome(IF config.relax THEN "R_TPOFF" ELSE "R_DTPOFF", {}, 0,
                    IF imported THEN {"DTPOFF reloc refers external symbol"} ELSE {}, 0)
     ELSE IF ty \in {R_X86_64_TPOFF32, R_X86_64_TPOFF64} THEN Outcome("R_TPOFF", {}, 0, {}, 0)
     ELSE IF ty = R_X86_64_GOTTPOFF THEN Outcome("R_GOTTPOFF", {"NEEDS_GOTTPOFF"}, 0, {}, 0)
     ELSE scan_unknown(s, i)

\* An error as reported: the message, with the section and the relocation
\* it is about.
ErrorsOf(s, i, msgs) == {[sec |-> s, i |-> i, msg |-> m] : m \in msgs}

\* The slots of file f, and the section the scanner of f is at.
NumSlots(f) == Len(obj_sections[f])
ScanSec(f) == obj_sections[f][scan_pos[f].j]

\* The position after the section at slot j of file f.
AfterSlot(f, j) == [j |-> NextSlot(obj_sections, f, j + 1), i |-> -1]

\* ObjectFile::scan_relocations calls scan_relocations of the section at
\* slot j of file f: a section that is not SHF_ALLOC returns at once;
\* otherwise the section records reldyn_offset, resizes rel_types and enters
\* its loop.
ScanSection(f) ==
  /\ pc = "scan"
  /\ scan_pos[f].i = -1
  /\ scan_pos[f].j <= NumSlots(f)
  /\ LET s == ScanSec(f)
     IN IF ~HasFlag(isec[s].sh_flags, SHF_ALLOC)
          THEN /\ scan_pos' = [scan_pos EXCEPT ![f] = AfterSlot(f, @.j)]
               /\ UNCHANGED <<reldyn_offset, rel_types>>
          ELSE /\ reldyn_offset' = [reldyn_offset EXCEPT ![s] = num_dynrel[f] * ElfRelaSize]
               /\ rel_types' = [rel_types EXCEPT ![s] = [k \in 1..Len(isec[s].rels) |-> "unset"]]
               /\ scan_pos' = [scan_pos EXCEPT ![f] =
                                 IF Len(isec[s].rels) = 0
                                   THEN AfterSlot(f, @.j)
                                   ELSE [j |-> @.j, i |-> 0]]
  /\ UNCHANGED <<priority, isec, obj_sections, sym_input_section, leader, icf_idx, pc,
                 sections, digests, slot, edge_indices, edges, num_classes, entries,
                 rewritten, run, first_run, config, sym_attr, sym_flags, layout,
                 num_dynrel, errors, buf, reldyn, copied, app, scanned, applied>>
  /\ UNCHANGED front_vars

\* One iteration of the loop of scan_relocations in the scanner of file f.
ScanReloc(f) ==
  /\ pc = "scan"
  /\ scan_pos[f].i >= 0
  /\ LET s == ScanSec(f)
         i == scan_pos[f].i
         out == scan_reloc(s, i)
         next == i + 1 + out.skip
     IN /\ rel_types' = IF out.kind = "unset" THEN rel_types
                        ELSE [rel_types EXCEPT ![s][i + 1] = out.kind]
        /\ sym_flags' = [sym_flags EXCEPT ![SymAt(s, i)] = @ \cup out.flags]
        /\ num_dynrel' = [num_dynrel EXCEPT ![f] = @ + out.dynrel]
        /\ errors' = errors \cup ErrorsOf(s, i, out.msgs)
        /\ scan_pos' = [scan_pos EXCEPT ![f] =
                          IF next >= Len(isec[s].rels)
                            THEN AfterSlot(f, @.j)
                            ELSE [j |-> @.j, i |-> next]]
        /\ scanned' = scanned \cup {<<s, i>>}
  /\ UNCHANGED <<priority, isec, obj_sections, sym_input_section, leader, icf_idx, pc,
                 sections, digests, slot, edge_indices, edges, num_classes, entries,
                 rewritten, run, first_run, config, sym_attr, layout, reldyn_offset,
                 buf, reldyn, copied, app, applied>>
  /\ UNCHANGED front_vars

\* Every file has been scanned.  An error reported during the phase stops
\* the link; otherwise icf_sections runs next.
ScanDone ==
  /\ pc = "scan"
  /\ \A f \in Files : scan_pos[f].j > NumSlots(f)
  /\ pc' = IF errors = {} THEN "gather" ELSE "stopped"
  /\ UNCHANGED <<priority, isec, obj_sections, sym_input_section, leader, icf_idx,
                 sections, digests, slot, edge_indices, edges, num_classes, entries,
                 rewritten, run, first_run, reloc_vars>>
  /\ UNCHANGED front_vars

(***************************************************************************)
(* Layout.  The addresses are inputs of the model; what layout takes from  *)
(* the scan is the size of .rela.dyn and the symbols that have a PLT       *)
(* entry.                                                                  *)
(***************************************************************************)
\* An ElfRela of the zero-filled output file.
NoRela == [r_offset |-> U64(0), r_type |-> R_X86_64_NONE, r_sym |-> 0, r_addend |-> U64(0)]

\* Symbol::plt_idx is -1 unless the scanner asked for a PLT entry.
plt_idx(sym) == IF "NEEDS_PLT" \in sym_flags[sym] THEN 0 ELSE -1

\* icf_sections has returned: .rela.dyn gets num_dynrel records per file.
Layout ==
  /\ pc = "done"
  /\ reldyn' = [f \in Files |-> [k \in 1..num_dynrel[f] |-> NoRela]]
  /\ pc' = "apply"
  /\ UNCHANGED <<priority, isec, obj_sections, sym_input_section, leader, icf_idx,
                 sections, digests, slot, edge_indices, edges, num_classes, entries,
                 rewritten, run, first_run, config, sym_attr, sym_flags, layout,
                 rel_types, num_dynrel, reldyn_offset, errors, scan_pos, buf, copied, app,
                 scanned, applied>>
  /\ UNCHANGED front_vars

(***************************************************************************)
(* overflow_check, write_val, copy_buf and the two appliers.               *)
(***************************************************************************)
Types8 == {R_X86_64_8, R_X86_64_PC8}
Types16 == {R_X86_64_16, R_X86_64_PC16}
Types32 == {R_X86_64_32, R_X86_64_32S, R_X86_64_PC32, R_X86_64_GOT32, R_X86_64_GOTPC32,
            R_X86_64_GOTPCREL, R_X86_64_GOTPCRELX, R_X86_64_REX_GOTPCRELX,
            R_X86_64_PLT32, R_X86_64_TLSGD, R_X86_64_TLSLD, R_X86_64_TPOFF32,
            R_X86_64_DTPOFF32, R_X86_64_GOTTPOFF}
Types64 == {R_X86_64_64, R_X86_64_PC64, R_X86_64_TPOFF64, R_X86_64_DTPOFF64}

\* overflow_check, were every narrow type compared as an unsigned value.
overflow_check_unsigned(r_type, val) ==
  IF r_type \in Types8 THEN val # ZeroExtend(val, 1)
  ELSE IF r_type \in Types16 THEN val # ZeroExtend(val, 2)
  ELSE IF r_type \in Types32 THEN val # ZeroExtend(val, 4)
  ELSE FALSE

\* overflow_check: TRUE if the error is reported.
overflow_check(r_type, val) ==
  IF r_type = R_X86_64_8 THEN val # ZeroExtend(val, 1)
  ELSE IF r_type = R_X86_64_PC8 THEN val # SignExtend(val, 1)
  ELSE IF r_type = R_X86_64_16 THEN val # ZeroExtend(val, 2)
  ELSE IF r_type = R_X86_64_PC16 THEN val # SignExtend(val, 2)
  ELSE IF r_type = R_X86_64_32 THEN val # ZeroExtend(val, 4)
  ELSE IF r_type \in Types32 THEN val # SignExtend(val, 4)
  ELSE FALSE

\* The bytes `bytes' stored at offset off (0-based) of the slice b.
Store(b, off, bytes) ==
  [k \in 1..Len(b) |-> IF off < k /\ k <= off + Len(bytes) THEN bytes[k - off] ELSE b[k]]

\* The width in bytes write_val stores for r_type.
WriteWidth(r_type) ==
  IF r_type \in Types8 THEN 1
  ELSE IF r_type \in Types16 THEN 2
  ELSE IF r_type \in Types32 THEN 4
  ELSE IF r_type \in Types64 THEN 8
  ELSE 0

\* write_val.
write_val(r_type, b, off, val) == Store(b, off, SubSeq(val, 1, WriteWidth(r_type)))

\* The instructions of the two relaxations.
insn_tlsgd == <<100, 72, 139, 4, 37, 0, 0, 0, 0, 72, 141, 128, 0, 0, 0, 0>>
insn_tlsld == <<102, 102, 102, 100, 72, 139, 4, 37, 0, 0, 0, 0>>

\* The fragment reference relocation i consumes, if it has one.
RefAt(s, i, ref_idx) ==
  IF isec[s].has_fragments[i + 1] THEN <<isec[s].rel_fragments[ref_idx + 1]>> ELSE <<>>

\* The macros S, A, P, G of apply_reloc_alloc.
MacroS(ref, sym) ==
  IF ref # <<>> THEN layout.frag_addr
  ELSE IF plt_idx(sym) = -1 THEN layout.sym_addr ELSE layout.plt_addr
MacroA(ref, rel) == IF ref # <<>> THEN I64(ref[1].addend) ELSE I64(rel.r_addend)
MacroP(rel) == U64Add(layout.sh_addr, U64(rel.r_offset))
MacroG == U64Sub(layout.got_addr, layout.got)

\* The value the `write' lambda is called with for a kind that writes.
KindValue(kind, ref, sym, rel) ==
  LET S == MacroS(ref, sym)
      A == MacroA(ref, rel)
      P == MacroP(rel)
  IN CASE kind \in {"R_ABS", "R_ABS_DYN"} -> U64Add(S, A)
       [] kind = "R_PC" -> U64Sub(U64Add(S, A), P)
       [] kind = "R_GOT" -> U64Add(MacroG, A)
       [] kind = "R_GOTPC" -> U64Sub(U64Add(layout.got, A), P)
       [] kind = "R_GOTPCREL" -> U64Sub(U64Add(U64Add(MacroG, layout.got), A), P)
       [] kind = "R_TLSGD" -> U64Sub(U64Add(layout.tlsgd_addr, A), P)
       [] kind = "R_TLSLD" -> U64Sub(U64Add(layout.tlsld_addr, A), P)
       [] kind = "R_DTPOFF" -> U64Sub(U64Add(S, A), layout.tls_begin)
       [] kind = "R_TPOFF" -> U64Sub(U64Add(S, A), layout.tls_end)
       [] kind = "R_GOTTPOFF" -> U64Sub(U64Add(layout.gottpoff_addr, A), P)

WritingKinds == {"R_ABS", "R_ABS_DYN", "R_PC", "R_GOT", "R_GOTPC", "R_GOTPCREL", "R_TLSGD",
                 "R_TLSLD", "R_DTPOFF", "R_TPOFF", "R_GOTTPOFF"}

\* What an iteration of an applier's loop does, as a record: the slice
\* after it, the ElfRela records stored through dynrel, the messages
\* reported, the extra increment of i, and whether the fragment reference
\* at ref_idx was consumed.
Applied(b, relas, msgs, skip, used_ref) ==
  [buf |-> b, relas |-> relas, msgs |-> msgs, skip |-> skip, used_ref |-> used_ref]

\* The value stored in the last four bytes of the relaxed TLSGD sequence.
tlsgd_relax_value(ref, sym, rel) ==
  U64Add(U64Add(U64Sub(MacroS(ref, sym), layout.tls_end), MacroA(ref, rel)), U64(4))

\* One iteration of the loop of apply_reloc_alloc on the slice b.
apply_reloc_alloc(s, i, ref_idx, b) ==
  LET rel == RelAt(s, i)
      sym == SymAt(s, i)
      ref == RefAt(s, i, ref_idx)
      used == ref # <<>>
      kind == rel_types[s][i + 1]
  IN IF kind \in WritingKinds
       THEN LET val == KindValue(kind, ref, sym, rel)
            IN Applied(write_val(rel.r_type, b, rel.r_offset, val),
                       IF kind = "R_ABS_DYN"
                         THEN <<[r_offset |-> MacroP(rel), r_type |-> R_X86_64_RELATIVE,
                                 r_sym |-> 0, r_addend |-> val]>>
                         ELSE <<>>,
                       IF overflow_check(rel.r_type, val) THEN {"out of range"} ELSE {},
                       0, used)
     ELSE IF kind = "R_DYN"
       THEN Applied(b, <<[r_offset |-> MacroP(rel), r_type |-> R_X86_64_64,
                          r_sym |-> sym_attr[sym].dynsym_idx, r_addend |-> MacroA(ref, rel)]>>,
                    {}, 0, used)
     ELSE IF kind = "R_TLSGD_RELAX_LE"
       THEN Applied(Store(Store(b, rel.r_offset - 4, insn_tlsgd), rel.r_offset + 8,
                          SubSeq(tlsgd_relax_value(ref, sym, rel), 1, 4)),
                    <<>>, {}, 1, used)
     ELSE IF kind = "R_TLSLD_RELAX_LE"
       THEN Applied(Store(b, rel.r_offset - 3, insn_tlsld), <<>>, {}, 1, used)
     ELSE Applied(b, <<>>, {}, 0, used)

NonallocAbs == {R_X86_64_8, R_X86_64_16, R_X86_64_32, R_X86_64_32S, R_X86_64_64}
NonallocInvalid == {R_X86_64_PC8, R_X86_64_PC16, R_X86_64_PC32, R_X86_64_PC64,
                    R_X86_64_GOT32, R_X86_64_GOTPC32, R_X86_64_GOTPCREL,
                    R_X86_64_GOTPCRELX, R_X86_64_REX_GOTPCRELX, R_X86_64_PLT32,
                    R_X86_64_TLSGD, R_X86_64_TLSLD, R_X86_64_DTPOFF32, R_X86_64_TPOFF32,
                    R_X86_64_TPOFF64, R_X86_64_GOTTPOFF}

\* One iteration of the loop of apply_reloc_nonalloc on the slice b.
apply_reloc_nonalloc(s, i, ref_idx, b) ==
  LET rel == RelAt(s, i)
      sym == SymAt(s, i)
      ref == RefAt(s, i, ref_idx)
      used == ref # <<>>
  IN IF is_undefined(sym) THEN Applied(b, <<>>, {"undefined symbol"}, 0, FALSE)
     ELSE IF rel.r_type \in NonallocAbs
       THEN LET val == IF ref # <<>> THEN layout.frag_addr ELSE layout.sym_addr
            IN Applied(write_val(rel.r_type, b, rel.r_offset, val), <<>>,
                       IF overflow_check(rel.r_type, val) THEN {"out of range"} ELSE {},
                       0, used)
     ELSE IF rel.r_type = R_X86_64_DTPOFF64
       THEN Applied(write_val(rel.r_type, b, rel.r_offset,
                              U64Sub(U64Add(layout.sym_addr, I64(rel.r_addend)),
                                     layout.tls_begin)),
                    <<>>, {}, 0, used)
     ELSE IF rel.r_type \in NonallocInvalid
       THEN Applied(b, <<>>, {"invalid relocation for non-allocated sections"}, 0, used)
     ELSE IF rel.r_type = R_X86_64_NONE THEN Applied(b, <<>>, {}, 0, used)
     ELSE Applied(b, <<>>, {"unknown relocation"}, 0, used)

\* The sections not yet copied.
ToCopy == LiveSecs(obj_sections) \ copied

\* copy_buf of section s up to the loop of its applier: nothing is done for
\* SHT_NOBITS and for an empty section; otherwise the contents are copied and
\* the applier starts with ref_idx = 0 and dynrel at the section's offset.
CopyBuf(s) ==
  /\ pc = "apply"
  /\ app.sec = NullSec
  /\ s \in ToCopy
  /\ IF isec[s].sh_type = "SHT_NOBITS" \/ Len(isec[s].contents) = 0
       THEN /\ copied' = copied \cup {s}
            /\ UNCHANGED <<buf, app>>
       ELSE /\ buf' = [buf EXCEPT ![s] = isec[s].contents]
            /\ IF Len(isec[s].rels) = 0
                 THEN copied' = copied \cup {s} /\ UNCHANGED app
                 ELSE /\ app' = [sec |-> s, i |-> 0, ref_idx |-> 0,
                                 dynrel |-> reldyn_offset[s] \div ElfRelaSize]
                      /\ UNCHANGED copied
  /\ UNCHANGED <<priority, isec, obj_sections, sym_input_section, leader, icf_idx, pc,
                 sections, digests, slot, edge_indices, edges, num_classes, entries,
                 rewritten, run, first_run, config, sym_attr, sym_flags, layout,
                 rel_types, num_dynrel, reldyn_offset, errors, scan_pos, reldyn,
                 scanned, applied>>
  /\ UNCHANGED front_vars

\* The records `relas' stored from index dynrel (0-based) of a file's part of
\* .rela.dyn.
StoreRelas(region, dynrel, relas) ==
  [k \in 1..Len(region) |->
     IF dynrel < k /\ k <= dynrel + Len(relas) THEN relas[k - dynrel] ELSE region[k]]

\* One iteration of the loop of the applier that copy_buf called.
ApplyReloc ==
  /\ pc = "apply"
  /\ app.sec # NullSec
  /\ LET s == app.sec
         i == app.i
         out == IF HasFlag(isec[s].sh_flags, SHF_ALLOC)
                  THEN apply_reloc_alloc(s, i, app.ref_idx, buf[s])
                  ELSE apply_reloc_nonalloc(s, i, app.ref_idx, buf[s])
         next == i + 1 + out.skip
     IN /\ buf' = [buf EXCEPT ![s] = out.buf]
        /\ reldyn' = [reldyn EXCEPT ![FileOf(s)] = StoreRelas(@, app.dynrel, out.relas)]
        /\ errors' = errors \cup ErrorsOf(s, i, out.msgs)
        /\ applied' = applied \cup {<<s, i>>}
        /\ IF next >= Len(isec[s].rels)
             THEN app' = NoApp /\ copied' = copied \cup {s}
             ELSE /\ app' = [sec |-> s, i |-> next,
                             ref_idx |-> app.ref_idx + (IF out.used_ref THEN 1 ELSE 0),
                             dynrel |-> app.dynrel + Len(out.relas)]
                  /\ UNCHANGED copied
  /\ UNCHANGED <<priority, isec, obj_sections, sym_input_section, leader, icf_idx, pc,
                 sections, digests, slot, edge_indices, edges, num_classes, entries,
                 rewritten, run, first_run, config, sym_attr, sym_flags, layout,
                 rel_types, num_dynrel, reldyn_offset, scan_pos, scanned>>
  /\ UNCHANGED front_vars

\* copy_buf has returned for every section the files hold.
ApplyDone ==
  /\ pc = "apply"
  /\ app.sec = NullSec
  /\ ToCopy = {}
  /\ pc' = "written"
  /\ UNCHANGED <<priority, isec, obj_sections, sym_input_section, leader, icf_idx,
                 sections, digests, slot, edge_indices, edges, num_classes, entries,
                 rewritten, run, first_run, reloc_vars>>
  /\ UNCHANGED front_vars

(***************************************************************************)
(* The link: scan_relocations, icf_sections, layout, copy_buf.  The inputs *)
(* are bounded families of programs.  Section 1 carries the relocations    *)
(* under study; section 2, in another file, is a plain text section.       *)
(*   ClassifyPrograms   one relocation of any type against any kind of     *)
(*                      symbol, in a writable or a read-only section;      *)
(*   NonallocPrograms   the same in a section that is not SHF_ALLOC;       *)
(*   ValuePrograms      a relocation of any type whose computed value lies *)
(*                      at or next to a bound of a range, and one after it;*)
(*   SequencePrograms   three relocations, with TLS relaxation, fragment   *)
(*                      references, undefined symbols and unknown types;   *)
(*   FoldPrograms       data sections with dynamic relocations beside text *)
(*                      sections that icf_sections may fold.               *)
(***************************************************************************)
\* A type the switch of the scanner has no case for.
UnknownType == R_X86_64_RELATIVE
KnownTypes == Types8 \cup Types16 \cup Types32 \cup Types64 \cup {R_X86_64_NONE}

\* The symbols the relocations of a program refer to, by kind.
ImportedSym == GlobalSym(NumSecs)
UndefSym == GlobalSym(NumSecs - 1)
SymKinds == {"section", "func", "ifunc", "abs", "imported_func", "imported_object",
             "undefined", "placeholder"}

KindSym(kind) ==
  CASE kind = "section" -> LocalSym(1)
    [] kind \in {"func", "ifunc"} -> GlobalSym(2)
    [] kind = "abs" -> AbsSym
    [] kind \in {"imported_func", "imported_object"} -> ImportedSym
    [] kind \in {"undefined", "placeholder"} -> UndefSym

KindAttr(kind) ==
  CASE kind = "section" -> [DefinedFunc EXCEPT !.st_type = "STT_SECTION"]
    [] kind = "func" -> DefinedFunc
    [] kind = "ifunc" -> [DefinedFunc EXCEPT !.st_type = "STT_GNU_IFUNC"]
    [] kind = "abs" -> [DefinedFunc EXCEPT !.st_type = "STT_NOTYPE"]
    [] kind = "imported_func" -> [DefinedFunc EXCEPT !.is_imported = TRUE, !.dynsym_idx = 1]
    [] kind = "imported_object" ->
         [DefinedFunc EXCEPT !.is_imported = TRUE, !.st_type = "STT_OBJECT", !.dynsym_idx = 1]
    [] kind = "undefined" -> [DefinedFunc EXCEPT !.file = FALSE]
    [] kind = "placeholder" -> [DefinedFunc EXCEPT !.is_placeholder = TRUE]

\* A relocation of a program: its type, the kind of symbol it names, whether
\* it refers to a fragment, and its addend.
Shape(ty, kind, frag, addend) == [ty |-> ty, kind |-> kind, frag |-> frag, addend |-> addend]

SiteOffset(i) == 8 * i - 4
SiteBytes == [k \in 1..32 |-> 204]

\* The section s with the relocations `shapes', one site every eight bytes.
LinkSec(s, flags, type, contents, shapes) ==
  [sh_flags |-> flags, sh_type |-> type, name |-> DataName, contents |-> contents,
   rels |-> [i \in 1..Len(shapes) |->
               [r_offset |-> SiteOffset(i), r_type |-> shapes[i].ty,
                r_sym |-> SymIdx(FileOf(s), KindSym(shapes[i].kind)),
                r_addend |-> shapes[i].addend]],
   has_fragments |-> [i \in 1..Len(shapes) |-> shapes[i].frag],
   rel_fragments |-> [i \in 1..Cardinality({k \in 1..Len(shapes) : shapes[k].frag})
                        |-> [frag |-> 1, addend |-> 0]]]

\* Symbol attributes: those of the kinds the shapes name.
AttrOf(shapes) ==
  [y \in Syms |->
     IF \E k \in 1..Len(shapes) : KindSym(shapes[k].kind) = y
       THEN KindAttr(shapes[CHOOSE k \in 1..Len(shapes) : KindSym(shapes[k].kind) = y].kind)
       ELSE DefinedFunc]

\* Section 1 with the given header and relocations, and the text section 2.
LinkProgram(flags, type, contents, shapes, cfg, lay) ==
  [present |-> {1, 2},
   sec |-> [s \in Secs |-> IF s = 1 THEN LinkSec(s, flags, type, contents, shapes)
                           ELSE TextSec(s, <<1>>, <<>>)],
   attr |-> AttrOf(shapes), config |-> cfg, layout |-> lay]

Configs == [pie : BOOLEAN, relax : BOOLEAN]
NoPieNoRelax == [pie |-> FALSE, relax |-> FALSE]

\* A layout of small, distinct addresses.
SmallLayout ==
  [sym_addr |-> U64(4096), plt_addr |-> U64(8192), frag_addr |-> U64(12288),
   got_addr |-> U64(16392), got |-> U64(16384), tlsgd_addr |-> U64(16400),
   tlsld_addr |-> U64(16416), gottpoff_addr |-> U64(16432),
   tls_begin |-> U64(20480), tls_end |-> U64(20608), sh_addr |-> U64(24576)]

ClassifyPrograms ==
  {LinkProgram(flags, "SHT_PROGBITS", SiteBytes, <<Shape(ty, kind, FALSE, 0)>>, cfg, SmallLayout)
     : ty \in KnownTypes \cup {UnknownType}, kind \in SymKinds,
       flags \in {SHF_ALLOC, SHF_ALLOC + SHF_WRITE}, cfg \in Configs}

NonallocPrograms ==
  {LinkProgram(0, "SHT_PROGBITS", SiteBytes, <<Shape(ty, kind, frag, 8)>>, NoPieNoRelax,
               SmallLayout)
     : ty \in KnownTypes \cup {UnknownType},
       kind \in {"section", "func", "undefined"}, frag \in {FALSE}}
  \cup {LinkProgram(0, "SHT_PROGBITS", SiteBytes, <<Shape(ty, "section", TRUE, 8)>>,
                    NoPieNoRelax, SmallLayout)
          : ty \in KnownTypes \cup {UnknownType}}

\* Words at and next to the bounds of the ranges of the narrow types.
Pow31 == <<0, 0, 0, 128, 0, 0, 0, 0>>
Pow32 == <<0, 0, 0, 0, 1, 0, 0, 0>>
ValueSet ==
  {U64(0), U64(127), U64(128), U64(255), U64(256), U64(32767), U64(32768), U64(65535),
   U64(65536), U64(2147483647), Pow31, U64Sub(Pow32, U64(1)), Pow32,
   I64(-1), I64(-128), I64(-129), I64(-32768), I64(-32769),
   U64Neg(Pow31), U64Sub(U64Neg(Pow31), U64(1))}

\* Every address of the layout is v and every base is zero; for
\* R_X86_64_GOTPC32, whose value does not depend on an address, the GOT base
\* is v.
ValueLayout(ty, v) ==
  IF ty = R_X86_64_GOTPC32
    THEN [NoLayout EXCEPT !.got = v]
    ELSE [sym_addr |-> v, plt_addr |-> v, frag_addr |-> v, got_addr |-> v, got |-> U64(0),
          tlsgd_addr |-> v, tlsld_addr |-> v, gottpoff_addr |-> v,
          tls_begin |-> U64(0), tls_end |-> U64(0), sh_addr |-> U64(0)]

\* The types whose value has the place P subtracted.
PlaceRelative == {R_X86_64_PC8, R_X86_64_PC16, R_X86_64_PC32, R_X86_64_PC64,
                  R_X86_64_GOTPC32, R_X86_64_GOTPCREL, R_X86_64_GOTPCRELX,
                  R_X86_64_REX_GOTPCRELX, R_X86_64_PLT32, R_X86_64_TLSGD,
                  R_X86_64_TLSLD, R_X86_64_GOTTPOFF}
TlsPairTypes == {R_X86_64_TLSGD, R_X86_64_TLSLD}

\* The addend that makes the computed value of the first relocation v.
ValueAddend(ty, relax) ==
  IF ty = R_X86_64_TLSGD /\ relax THEN -4
  ELSE IF ty \in PlaceRelative THEN SiteOffset(1)
  ELSE 0

ValueProgram(ty, v, relax) ==
  LinkProgram(SHF_ALLOC + SHF_WRITE, "SHT_PROGBITS", SiteBytes,
              <<Shape(ty, "func", FALSE, ValueAddend(ty, relax)),
                IF ty \in TlsPairTypes
                  THEN Shape(R_X86_64_PLT32, "func", FALSE, SiteOffset(2))
                  ELSE Shape(R_X86_64_64, "func", FALSE, 0)>>,
              [pie |-> FALSE, relax |-> relax], ValueLayout(ty, v))

ValuePrograms ==
  {ValueProgram(ty, v, FALSE) : ty \in KnownTypes, v \in ValueSet}
  \cup {ValueProgram(ty, v, TRUE) : ty \in TlsPairTypes, v \in ValueSet}

SequenceShapes ==
  {Shape(R_X86_64_TLSGD, "func", FALSE, -4),
   Shape(R_X86_64_TLSLD, "func", FALSE, 0),
   Shape(R_X86_64_TLSGD, "imported_func", FALSE, 0),
   Shape(R_X86_64_PLT32, "func", FALSE, -4),
   Shape(R_X86_64_PLT32, "section", TRUE, -4),
   Shape(R_X86_64_32, "section", TRUE, 0),
   Shape(R_X86_64_64, "undefined", FALSE, 0),
   Shape(UnknownType, "func", FALSE, 0)}

NonallocShapes ==
  {Shape(R_X86_64_32, "section", TRUE, 0),
   Shape(R_X86_64_64, "func", FALSE, 8),
   Shape(R_X86_64_64, "undefined", FALSE, 0),
   Shape(R_X86_64_PC32, "func", FALSE, -4)}

SequencePrograms ==
  {LinkProgram(SHF_ALLOC + SHF_WRITE, "SHT_PROGBITS", SiteBytes, <<a, b, c>>,
               [pie |-> FALSE, relax |-> relax], SmallLayout)
     : a \in SequenceShapes, b \in SequenceShapes, c \in SequenceShapes, relax \in BOOLEAN}
  \cup {LinkProgram(0, "SHT_PROGBITS", SiteBytes, <<a, b, c>>, NoPieNoRelax, SmallLayout)
          : a \in NonallocShapes, b \in NonallocShapes, c \in NonallocShapes}

\* A text section with relocations.
LinkText(s, contents, shapes) ==
  [LinkSec(s, SHF_ALLOC + SHF_EXECINSTR, "SHT_PROGBITS", contents, shapes)
     EXCEPT !.name = TextName]

FoldData == {<<"SHT_PROGBITS", SiteBytes>>, <<"SHT_NOBITS", SiteBytes>>, <<"SHT_PROGBITS", <<>>>>}
FoldShapes == {<<>>, <<Shape(R_X86_64_64, "func", FALSE, 0)>>,
               <<Shape(R_X86_64_64, "imported_object", FALSE, 0),
                 Shape(R_X86_64_64, "func", FALSE, 8)>>}
FoldTexts == {<<>>, <<SiteBytes>>, <<[SiteBytes EXCEPT ![1] = 144]>>}

\* Sections 1 and 3 are of one file, sections 2 and 4 text of the other.
\* Section 1 is writable data; section 3 is absent, writable data, or a
\* section that is not SHF_ALLOC; section 4 is absent, equal to section 2,
\* or of other contents.
FoldPrograms ==
  {[present |-> {1} \cup {s \in {2} : has2} \cup {s \in {3} : flags3 # <<>>}
                    \cup {s \in {4} : has2 /\ text4 # <<>>},
    sec |-> [s \in Secs |->
               IF s = 1 THEN LinkSec(s, SHF_ALLOC + SHF_WRITE, data[1], data[2], shapes)
               ELSE IF s = 3
                 THEN LinkSec(s, IF flags3 = <<>> THEN 0 ELSE flags3[1], "SHT_PROGBITS",
                              SiteBytes, <<Shape(R_X86_64_64, "func", FALSE, 0)>>)
               ELSE IF s = 4 /\ text4 # <<>>
                 THEN LinkText(s, text4[1], <<Shape(R_X86_64_PLT32, "abs", FALSE, -4)>>)
               ELSE LinkText(s, SiteBytes, <<Shape(R_X86_64_PLT32, "abs", FALSE, -4)>>)],
    attr |-> AttrOf(shapes), config |-> [pie |-> TRUE, relax |-> FALSE],
    layout |-> SmallLayout]
     : data \in FoldData, shapes \in FoldShapes, has2 \in BOOLEAN,
       flags3 \in {<<>>, <<SHF_ALLOC + SHF_WRITE>>, <<0>>}, text4 \in FoldTexts}

LinkPrograms ==
  ClassifyPrograms \cup NonallocPrograms \cup ValuePrograms \cup SequencePrograms
    \cup FoldPrograms

\* The state the link is in when the files have been parsed and the symbols
\* resolved.
InitLink ==
  /\ priority = [f \in Files |-> f]
  /\ \E prog \in LinkPrograms :
       /\ isec = prog.sec
       /\ obj_sections = ParsedSections(prog.present)
       /\ sym_input_section = ParsedSymbols(prog.present)
       /\ sym_attr = prog.attr
       /\ config = prog.config
       /\ layout = prog.layout
  /\ leader = [s \in Secs |-> NullSec]
  /\ icf_idx = [s \in Secs |-> -1]
  /\ pc = "scan"
  /\ sections = <<>>
  /\ digests = <<<<>>, <<>>>>
  /\ slot = 0
  /\ edge_indices = <<>>
  /\ edges = <<>>
  /\ num_classes = 0
  /\ entries = <<>>
  /\ rewritten = {}
  /\ run = 1
  /\ first_run = NoFolding
  /\ RelocInit
  /\ FrontIdle

\* The phases of the link.
NextLink ==
  \/ \E f \in Files : ScanSection(f)
  \/ \E f \in Files : ScanReloc(f)
  \/ ScanDone
  \/ Next
  \/ Layout
  \/ \E s \in Secs : CopyBuf(s)
  \/ ApplyReloc
  \/ ApplyDone

SpecLink == InitLink /\ [][NextLink]_vars

(***************************************************************************)
(* What icf_sections started from and what it left, read off a state of    *)
(* the first run.                                                          *)
(***************************************************************************)
\* The sections the files held when gather_sections ran: those it numbered.
InputSecs == {s \in Secs : icf_idx[s] # -1}

\* Symbol::input_section as it was when gather_sections ran.
InputSymbols == ParsedSymbols(InputSecs)

\* The section that stands for s in the output.
Rep(s) == IF leader[s] # NullSec THEN leader[s] ELSE s

\* The sections the edges of s lead to, by position.
OutEdges(s) == EdgeTargets(s, InputSymbols)

\* x and y have equal initial digests and, position by position, edges into
\* the same section or into one final class.
EquivalentUnderFolding(x, y) ==
  /\ EntryDigest(x, InputSymbols) = EntryDigest(y, InputSymbols)
  /\ Len(OutEdges(x)) = Len(OutEdges(y))
  /\ \A k \in 1..Len(OutEdges(x)) : Rep(OutEdges(x)[k]) = Rep(OutEdges(y)[k])

\* C1: after icf_sections, a section is folded into a leader only if the
\* two have equal initial digests and their edges lead, position by
\* position, to the same section or to sections of one final class.
C1_FoldedOnlyIfEquivalent ==
  pc = "done" =>
    \A x \in Secs : leader[x] # NullSec => EquivalentUnderFolding(x, leader[x])

\* C2: when the loop exits, one more propagation round splits no class and
\* counts the same number of classes.
C2_ExitIsFixedPoint ==
  pc = "merge" =>
    LET n == Len(sections)
        cur == digests[slot + 1]
        extra == propagate_round(cur, digests[2 - slot], n, edge_indices, edges)
    IN /\ count_num_classes(extra, n) = num_classes
       /\ \A i, j \in 1..n : cur[i] = cur[j] => extra[i] = extra[j]

\* C3: a folded section's leader has no leader itself and is another
\* section: one hop, no chains, no section its own leader.
C3_NoLeaderChains ==
  \A s \in Secs :
    leader[s] # NullSec => leader[s] # s /\ leader[leader[s]] = NullSec

\* icf_sections has finished and folded two sections into one leader.
C3_Witness ==
  /\ pc = "done"
  /\ \E x, y \in Secs : x # y /\ leader[x] # NullSec /\ leader[x] = leader[y]

\* The sections of the input that the files no longer hold.
KilledSecs == InputSecs \ LiveSecs(obj_sections)

LowerPriority(a, b) ==
  \/ priority[FileOf(a)] < priority[FileOf(b)]
  \/ priority[FileOf(a)] = priority[FileOf(b)] /\ get_section_idx(a) < get_section_idx(b)

\* The sections whose final digest is that of entry i.
ClassOfEntry(i) == {entries[j].isec : j \in {k \in 1..Len(entries) : entries[k].digest = entries[i].digest}}

\* C5: in each class of equal final digests the member of smallest priority
\* keeps a null leader and its slot; every other member has it as leader
\* and its slot in its file is null.
C5_LeaderIsLowestPriority ==
  pc = "done" =>
    \A i \in 1..Len(entries) :
      LET class == ClassOfEntry(i)
          m == CHOOSE x \in class : \A y \in class \ {x} : LowerPriority(x, y)
      IN \A s \in class :
           IF s = m
             THEN /\ leader[s] = NullSec
                  /\ obj_sections[FileOf(s)][get_section_idx(s)] = s
             ELSE /\ leader[s] = m
                  /\ obj_sections[FileOf(s)][get_section_idx(s)] = NullSec

\* icf_sections has finished, and a section of the file of higher priority
\* value was folded into a section of larger index in the other file.
C5_Witness ==
  /\ pc = "done"
  /\ \E s \in Secs :
       /\ leader[s] # NullSec
       /\ priority[FileOf(leader[s])] < priority[FileOf(s)]
       /\ get_section_idx(leader[s]) > get_section_idx(s)
       /\ obj_sections[FileOf(s)][get_section_idx(s)] = NullSec

\* The leaders icf_sections assigns when the first sort leaves ents.
FoldingOf(ents) ==
  LET g == gather_sections(ents, InputSymbols, [s \in Secs |-> -1])
      n == Len(g.sections)
      final == RunRounds(g.digests, g.digests, count_num_classes(g.digests, n), n,
                         g.edge_indices, g.edges)
  IN label_leaders(merge_entries(g.sections, final), [s \in Secs |-> NullSec])

\* C6: the folding is a function of the inputs and the priorities: whatever
\* order the first sort left, every other order it could have left gives
\* the leaders this run assigned.
C6_FoldingIsDeterministic ==
  pc = "done" =>
    \A ents \in GatherOrders(ParsedSections(InputSecs), InputSymbols) :
      FoldingOf(ents) = leader

\* C7: a second run of icf_sections on what the first left folds nothing
\* more: leaders, symbol bindings and the files' sections are as the first
\* run left them.
C7_SecondRunFoldsNothing ==
  (run = 2 /\ pc = "done") =>
    /\ leader = first_run.ldr
    /\ sym_input_section = first_run.syms
    /\ obj_sections = first_run.objs

\* A valid C identifier: a letter or underscore, then letters, digits and
\* underscores.
ValidCIdentifier(name) ==
  /\ Len(name) >= 1
  /\ name[1] \in Alpha \cup {"_"}
  /\ \A i \in 2..Len(name) : name[i] \in Alpha \cup Digit \cup {"_"}

\* The conditions of eligibility, as listed.
EligibleAsListed(s) ==
  /\ HasFlag(isec[s].sh_flags, SHF_ALLOC)
  /\ HasFlag(isec[s].sh_flags, SHF_EXECINSTR)
  /\ ~HasFlag(isec[s].sh_flags, SHF_WRITE)
  /\ isec[s].sh_type \notin {"SHT_NOBITS", "SHT_INIT_ARRAY", "SHT_FINI_ARRAY"}
  /\ isec[s].name \notin {<<".", "i", "n", "i", "t">>, <<".", "f", "i", "n", "i">>}
  /\ ~ValidCIdentifier(isec[s].name)

\* C8: is_eligible holds exactly when all listed conditions hold, and a
\* section that fails one keeps a null leader, is never killed and is never
\* the leader of another section.
C8_IneligibleNeverFolded ==
  \A s \in Secs :
    /\ is_eligible(s) <=> EligibleAsListed(s)
    /\ ~EligibleAsListed(s) =>
         /\ leader[s] = NullSec
         /\ s \notin KilledSecs
         /\ \A x \in Secs : leader[x] # s

\* icf_sections has finished on an input in which an ineligible section has
\* the bytes and flags of an eligible one, or the bytes of a folded one.
C8_Witness ==
  /\ pc = "done"
  /\ \E s, x \in InputSecs :
       /\ ~EligibleAsListed(s)
       /\ isec[s].contents = isec[x].contents
       /\ is_eligible(x)
       /\ \/ isec[s].sh_flags = isec[x].sh_flags /\ isec[s].rels = isec[x].rels
          \/ leader[x] # NullSec
       /\ leader[s] = NullSec
       /\ s \in LiveSecs(obj_sections)

\* C9: a section of size 0 is never eligible and never folded.
C9_EmptyNeverEligible ==
  pc = "done" =>
    \A s \in InputSecs :
      Len(isec[s].contents) = 0 =>
        /\ ~is_eligible(s)
        /\ leader[s] = NullSec
        /\ s \in LiveSecs(obj_sections)

\* The reference graph of the input: <<s, k, t>> when the k-th edge of the
\* eligible section s leads to section t.
ReferenceGraph ==
  UNION {{<<s, k, OutEdges(s)[k]>> : k \in 1..Len(OutEdges(s))}
           : s \in {x \in InputSecs : is_eligible(x)}}

\* One refinement step: the pairs of R whose edges in G agree in number and
\* lead, position by position, to one section or to a pair of R.
RefinePairs(R, G) ==
  {p \in R :
     \A e \in {g \in G : g[1] = p[1]} \cup {g \in G : g[1] = p[2]} :
       \E e1 \in G, e2 \in G :
         /\ e1[1] = p[1] /\ e2[1] = p[2]
         /\ e1[2] = e[2] /\ e2[2] = e[2]
         /\ (e1[3] = e2[3] \/ <<e1[3], e2[3]>> \in R)}

RECURSIVE LargestBisimulation(_, _)
LargestBisimulation(R, G) ==
  LET refined == RefinePairs(R, G)
  IN IF refined = R THEN R ELSE LargestBisimulation(refined, G)

\* Structural equivalence of eligible sections of the input: the largest
\* relation of pairs of equal initial digest closed under RefinePairs.
StructurallyEquivalent ==
  LET inputs == {<<s, EntryDigest(s, InputSymbols)>> : s \in {x \in InputSecs : is_eligible(x)}}
  IN LargestBisimulation({p \in Secs \X Secs :
                            \E a, b \in inputs : a[1] = p[1] /\ b[1] = p[2] /\ a[2] = b[2]},
                         ReferenceGraph)

\* C10, as amended: two different structurally equivalent sections end in
\* one class: one is folded into the other, or both are folded into the
\* same leader.
C10_EquivalentAreFolded ==
  pc = "done" =>
    \A p \in StructurallyEquivalent :
      p[1] # p[2] =>
        \/ leader[p[1]] = p[2]
        \/ leader[p[2]] = p[1]
        \/ leader[p[1]] # NullSec /\ leader[p[1]] = leader[p[2]]

\* C10, as stated: of two different structurally equivalent sections one is
\* folded into the other.
C10_OneFoldedIntoTheOther ==
  pc = "done" =>
    \A p \in StructurallyEquivalent :
      p[1] # p[2] => leader[p[1]] = p[2] \/ leader[p[2]] = p[1]

\* icf_sections has finished; of two sections that refer to each other one
\* was folded into the other, and a section that refers to itself was folded
\* into the same leader.
C10_Witness ==
  /\ pc = "done"
  /\ \E x, y, z \in InputSecs :
       /\ x # y /\ z \notin {x, y}
       /\ OutEdges(x) = <<y>> /\ OutEdges(y) = <<x>> /\ OutEdges(z) = <<z>>
       /\ leader[y] = x
       /\ leader[z] = x

(***************************************************************************)
(* The loop `for (;;)' runs on: the thread of icf_sections is not stopped  *)
(* between two rounds.                                                     *)
(***************************************************************************)
SpecLive == Init /\ [][Next]_vars /\ WF_vars(PropagateRound)

\* C11: the propagation loop terminates on every reference graph: from one
\* round to the next the class count never decreases, it never exceeds the
\* number of eligible sections, and the loop reaches its exit.
C11_PropagationTerminates ==
  /\ [][pc = "propagate" =>
         /\ num_classes' >= num_classes
         /\ num_classes' <= Len(sections)
         /\ (pc' = "propagate" => num_classes' > num_classes)]_vars
  /\ (pc = "propagate" ~> pc = "merge")

\* The loop has exited with a count at least two above the count of the
\* initial digests: it ran three rounds or more.
C11_Witness ==
  /\ pc = "merge"
  /\ num_classes >=
       count_num_classes([i \in 1..Len(sections) |-> EntryDigest(sections[i], InputSymbols)],
                         Len(sections)) + 2

(***************************************************************************)
(* What the link left, read off a state.                                   *)
(***************************************************************************)
\* The ElfRela records stored in file f's part of .rela.dyn.
WrittenRelas(f) == Cardinality({k \in 1..Len(reldyn[f]) : reldyn[f][k] # NoRela})

\* C12: when scan_relocations, icf_sections and copy_buf over every live
\* section have run, the number of ElfRela records written into .rela.dyn
\* equals the sum over the files of num_dynrel.
C12_WrittenEqualsCounted ==
  pc = "written" =>
    SumTo([f \in Files |-> WrittenRelas(f)], NumFiles) = SumTo(num_dynrel, NumFiles)

\* The relocations of s before i (0-based) that refer to a fragment.
FragmentsBefore(s, i) == Cardinality({j \in 1..i : isec[s].has_fragments[j]})

\* C13: in apply_reloc_alloc and apply_reloc_nonalloc, when the loop is at
\* relocation i, ref_idx is the number of earlier relocations of the
\* section whose has_fragments bit is set; also after a relocation was
\* skipped behind a relaxed TLSGD or TLSLD or for an undefined symbol.
C13_RefIdxInLockstep ==
  (pc = "apply" /\ app.sec # NullSec) => app.ref_idx = FragmentsBefore(app.sec, app.i)

RelaxKinds == {"R_TLSGD_RELAX_LE", "R_TLSLD_RELAX_LE"}

\* The relocations of s (0-based) that follow a relocation classified as a
\* relaxed TLSGD or TLSLD.
Consumed(s) ==
  {i \in 1..(Len(isec[s].rels) - 1) : rel_types[s][i] \in RelaxKinds}

\* The relocations of s the scanner's loop, respectively an applier's loop,
\* did not run on.
NotScanned(s) == {i \in 0..(Len(isec[s].rels) - 1) : <<s, i>> \notin scanned}
NotApplied(s) == {i \in 0..(Len(isec[s].rels) - 1) : <<s, i>> \notin applied}

\* The sections whose relocations were scanned, respectively applied.
ScannedSecs == {s \in Secs : pc # "scan" /\ Len(rel_types[s]) > 0}
AppliedSecs == {s \in copied : buf[s] # <<>> /\ Len(isec[s].rels) > 0}

\* The flags and the count the relocations the scanner ran on account for.
FlagsScanned(y) ==
  UNION {scan_reloc(r[1], r[2]).flags : r \in {q \in scanned : SymAt(q[1], q[2]) = y}}
DynrelScanned(f) ==
  Cardinality({r \in scanned : FileOf(r[1]) = f /\ scan_reloc(r[1], r[2]).dynrel = 1})

SiteOf(b, s, i) ==
  SubSeq(b, RelAt(s, i).r_offset + 1, RelAt(s, i).r_offset + WriteWidth(RelAt(s, i).r_type))

\* C15: under pie, an R_X86_64_32 relocation against an imported function
\* makes the scanner report the -fPIE error, and the applier does not write
\* the site of that relocation.
C15_Abs32ImportedUnderPie ==
  \A r \in scanned :
    (/\ config.pie
     /\ RelAt(r[1], r[2]).r_type = R_X86_64_32
     /\ sym_attr[SymAt(r[1], r[2])].is_imported
     /\ sym_attr[SymAt(r[1], r[2])].st_type = "STT_FUNC")
    => /\ [sec |-> r[1], i |-> r[2], msg |-> "recompile with -fPIE"] \in errors
       /\ r \in applied => SiteOf(buf[r[1]], r[1], r[2]) = SiteOf(isec[r[1]].contents, r[1], r[2])

\* The scanner of file f runs its loop on relocation i of section s in this
\* step.
ScanStep(f, s, i) ==
  /\ pc = "scan"
  /\ scan_pos[f].i = i
  /\ i >= 0
  /\ ScanSec(f) = s
  /\ scan_pos'[f] # scan_pos[f]

\* The relocations of section s, 0-based.
RelIndices(s) == 0..(Len(isec[s].rels) - 1)

\* What the step at relocation i of s did: the kind it stored, the flags it
\* added to the relocation's symbol, the change of the file's num_dynrel and
\* whether it reported `msg'.
KindStored(s, i) == rel_types'[s][i + 1]
FlagsAdded(s, i) == sym_flags'[SymAt(s, i)] \ sym_flags[SymAt(s, i)]
DynrelAdded(s) == num_dynrel'[FileOf(s)] - num_dynrel[FileOf(s)]
Reported(s, i, msg) == [sec |-> s, i |-> i, msg |-> msg] \in errors' \ errors

\* C16: for R_X86_64_64 under pie, an imported symbol in a writable section
\* gives R_DYN with NEEDS_DYNSYM and num_dynrel + 1, a relative symbol in a
\* writable section gives R_ABS_DYN with num_dynrel + 1, an absolute symbol
\* gives R_ABS and no change of the counter, and an imported or relative
\* symbol in a read-only section is an error; without pie the kind is R_ABS,
\* with NEEDS_PLT (function) or NEEDS_COPYREL (otherwise) exactly if the
\* symbol is imported.
C16_Abs64Classification ==
  [][\A f \in Files, s \in Secs : \A i \in RelIndices(s) :
       (/\ ScanStep(f, s, i)
        /\ RelAt(s, i).r_type = R_X86_64_64
        /\ ~is_undefined(SymAt(s, i)))
       => LET sym == SymAt(s, i)
              imported == sym_attr[sym].is_imported
              relative == is_relative(sym)
              writable == HasFlag(isec[s].sh_flags, SHF_WRITE)
              is_func == sym_attr[sym].st_type = "STT_FUNC"
          IN IF config.pie
               THEN /\ (imported /\ writable) =>
                         /\ KindStored(s, i) = "R_DYN"
                         /\ FlagsAdded(s, i) = {"NEEDS_DYNSYM"}
                         /\ DynrelAdded(s) = 1
                         /\ ~Reported(s, i, "recompile with -fPIE")
                    /\ (~imported /\ relative /\ writable) =>
                         /\ KindStored(s, i) = "R_ABS_DYN"
                         /\ FlagsAdded(s, i) = {}
                         /\ DynrelAdded(s) = 1
                         /\ ~Reported(s, i, "recompile with -fPIE")
                    /\ (~imported /\ ~relative) =>
                         /\ KindStored(s, i) = "R_ABS"
                         /\ FlagsAdded(s, i) = {}
                         /\ DynrelAdded(s) = 0
                         /\ ~Reported(s, i, "recompile with -fPIE")
                    /\ ((imported \/ relative) /\ ~writable) =>
                         Reported(s, i, "recompile with -fPIE")
               ELSE /\ KindStored(s, i) = "R_ABS"
                    /\ DynrelAdded(s) = 0
                    /\ errors' = errors
                    /\ FlagsAdded(s, i) =
                         IF ~imported THEN {}
                         ELSE IF is_func THEN {"NEEDS_PLT"} ELSE {"NEEDS_COPYREL"}]_vars

\* Under pie, the scanner has classified two R_X86_64_64 relocations of a
\* writable section: one against an imported symbol as R_DYN, one against a
\* relative symbol as R_ABS_DYN, and has counted both.
C16_Witness ==
  /\ config.pie
  /\ \E s \in Secs :
       /\ HasFlag(isec[s].sh_flags, SHF_WRITE)
       /\ rel_types[s] = <<"R_DYN", "R_ABS_DYN">>
       /\ \A i \in {0, 1} : RelAt(s, i).r_type = R_X86_64_64
       /\ "NEEDS_DYNSYM" \in sym_flags[SymAt(s, 0)]
       /\ num_dynrel[FileOf(s)] = 2

\* The relocations of the sections of file f classified R_DYN or R_ABS_DYN.
DynamicKinds(f) ==
  {<<s, i>> \in Secs \X (0..NumSecs) :
     /\ FileOf(s) = f
     /\ i < Len(rel_types[s])
     /\ rel_types[s][i + 1] \in {"R_DYN", "R_ABS_DYN"}}

\* scan_relocations is called in this step for a section of file f that is
\* not SHF_ALLOC.
ScanNonallocStep(f) ==
  /\ pc = "scan"
  /\ scan_pos[f].i = -1
  /\ scan_pos'[f] # scan_pos[f]
  /\ ~HasFlag(isec[ScanSec(f)].sh_flags, SHF_ALLOC)

\* C17: num_dynrel of every file is the number of relocations of its
\* SHF_ALLOC sections that are classified R_DYN or R_ABS_DYN, and scanning
\* a section that is not SHF_ALLOC changes nothing.
C17_DynrelCountsDynamicKinds ==
  /\ [](\A f \in Files : num_dynrel[f] = Cardinality(DynamicKinds(f)))
  /\ [][\A f \in Files :
          ScanNonallocStep(f) =>
            UNCHANGED <<rel_types, sym_flags, num_dynrel, reldyn_offset, errors, scanned>>]_vars

\* The scan is over without an error; the file of section 1 has counted the
\* two dynamic relocations of that section, and its other section, which is
\* not SHF_ALLOC and has a relocation of the same type, was left as it was.
C17_Witness ==
  /\ pc = "gather"
  /\ num_dynrel[FileOf(1)] = 2
  /\ rel_types[1] = <<"R_DYN", "R_ABS_DYN">>
  /\ \E s \in SecsOf(FileOf(1)) \ {1} :
       /\ s \in LiveSecs(obj_sections)
       /\ ~HasFlag(isec[s].sh_flags, SHF_ALLOC)
       /\ Len(isec[s].rels) = 1
       /\ rel_types[s] = <<>>

\* The position of the scanner of file f after relocation i of the section
\* at its slot, when the loop's own i++ is the only increment.
AfterReloc(f, s, i) ==
  IF i + 1 >= Len(isec[s].rels) THEN AfterSlot(f, scan_pos[f].j)
  ELSE [j |-> scan_pos[f].j, i |-> i + 1]

\* Section s has a relocation before i whose symbol is undefined.
UndefinedBefore(s, i) == \E k \in 0..(i - 1) : is_undefined(SymAt(s, k))

\* C18: at a relocation whose symbol is undefined, scan_relocations reports
\* "undefined symbol", stores no kind, sets no flag, changes no counter and
\* goes on with the next relocation; the relocations after it are
\* classified as the switch classifies them.
C18_UndefinedSymbolContinues ==
  [][\A f \in Files, s \in Secs : \A i \in RelIndices(s) :
       ScanStep(f, s, i) =>
         /\ is_undefined(SymAt(s, i)) =>
              /\ Reported(s, i, "undefined symbol")
              /\ UNCHANGED <<rel_types, sym_flags, num_dynrel, reldyn_offset>>
              /\ scan_pos'[f] = AfterReloc(f, s, i)
         /\ (UndefinedBefore(s, i) /\ ~is_undefined(SymAt(s, i))) =>
              /\ scan_reloc(s, i).kind # "unset" => KindStored(s, i) = scan_reloc(s, i).kind
              /\ FlagsAdded(s, i) = scan_reloc(s, i).flags \ sym_flags[SymAt(s, i)]
              /\ DynrelAdded(s) = scan_reloc(s, i).dynrel
              /\ errors' = errors \cup ErrorsOf(s, i, scan_reloc(s, i).msgs)]_vars

\* The scan of a section of three relocations is over: the first has an
\* undefined symbol and was reported, its symbol has no flag, and the two
\* after it have their kinds.
C18_Witness ==
  /\ pc # "scan"
  /\ \E s \in Secs :
       /\ Len(rel_types[s]) = 3
       /\ is_undefined(SymAt(s, 0))
       /\ [sec |-> s, i |-> 0, msg |-> "undefined symbol"] \in errors
       /\ sym_flags[SymAt(s, 0)] = {}
       /\ num_dynrel[FileOf(s)] = 0
       /\ rel_types[s] = <<"unset", "R_PC", "R_ABS">>

\* The relocations the scanner ran on whose symbol is defined and whose type
\* the switch has no case for.
UnknownScanned ==
  {r \in scanned : /\ ~is_undefined(SymAt(r[1], r[2]))
                   /\ RelAt(r[1], r[2]).r_type \notin KnownTypes}

\* C19: an unknown relocation type ends the scan of its section: the error
\* is reported and the loop runs on no relocation after it, which so gets
\* no kind.
C19_UnknownTypeIsFatal ==
  \A r \in UnknownScanned :
    /\ [sec |-> r[1], i |-> r[2], msg |-> "unknown relocation"] \in errors
    /\ \A j \in RelIndices(r[1]) :
         j > r[2] => (<<r[1], j>> \notin scanned /\ rel_types[r[1]][j + 1] = "unset")

\* An applier runs its loop on relocation i of section s in this step.
ApplyStep(s, i) ==
  /\ pc = "apply"
  /\ app.sec = s
  /\ app.i = i
  /\ applied' # applied

\* Relocation i of s is one whose value goes through overflow_check and
\* write_val, respectively one whose value the relaxation of a TLSGD stores.
WritesThrough(s, i) ==
  IF HasFlag(isec[s].sh_flags, SHF_ALLOC)
    THEN rel_types[s][i + 1] \in WritingKinds
    ELSE ~is_undefined(SymAt(s, i)) /\ RelAt(s, i).r_type \in NonallocAbs
PatchesField(s, i) ==
  HasFlag(isec[s].sh_flags, SHF_ALLOC) /\ rel_types[s][i + 1] = "R_TLSGD_RELAX_LE"

\* The value the applier computes for relocation i of s in this step.
ComputedValue(s, i) ==
  LET ref == RefAt(s, i, app.ref_idx)
  IN IF PatchesField(s, i) THEN tlsgd_relax_value(ref, SymAt(s, i), RelAt(s, i))
     ELSE IF HasFlag(isec[s].sh_flags, SHF_ALLOC)
       THEN KindValue(rel_types[s][i + 1], ref, SymAt(s, i), RelAt(s, i))
     ELSE IF ref # <<>> THEN layout.frag_addr ELSE layout.sym_addr

\* The range of a relocation type: unsigned or signed, and its width in
\* bytes; and whether a 64-bit word lies in it.
RangeOf(r_type) ==
  CASE r_type = R_X86_64_8 -> <<"unsigned", 1>>
    [] r_type = R_X86_64_PC8 -> <<"signed", 1>>
    [] r_type = R_X86_64_16 -> <<"unsigned", 2>>
    [] r_type = R_X86_64_PC16 -> <<"signed", 2>>
    [] r_type = R_X86_64_32 -> <<"unsigned", 4>>
    [] r_type \in Types32 \ {R_X86_64_32} -> <<"signed", 4>>
    [] OTHER -> <<"any", 8>>
InRange(r_type, val) ==
  LET w == RangeOf(r_type)[2]
      high(b) == \A k \in (w + 1)..8 : val[k] = b
  IN CASE RangeOf(r_type)[1] = "any" -> TRUE
       [] RangeOf(r_type)[1] = "unsigned" -> high(0)
       [] RangeOf(r_type)[1] = "signed" ->
            (high(0) /\ val[w] < 128) \/ (high(255) /\ val[w] >= 128)

\* The step at relocation i of s reports "out of range" exactly when the
\* computed value is outside the range of the type, leaves the low bytes of
\* the value in the field at offset `field' from the site, and the loop
\* goes on behind the relocation (and the `extra' ones it consumes).
RangeCheckedStore(s, i, field, extra) ==
  LET ty == RelAt(s, i).r_type
      val == ComputedValue(s, i)
      at == RelAt(s, i).r_offset + field
  IN /\ Reported(s, i, "out of range") <=> ~InRange(ty, val)
     /\ SubSeq(buf'[s], at + 1, at + WriteWidth(ty)) = SubSeq(val, 1, WriteWidth(ty))
     /\ IF i + 1 + extra < Len(isec[s].rels)
          THEN app'.sec = s /\ app'.i = i + 1 + extra
          ELSE s \in copied'

\* C20: for every relocation whose value goes through the applier's write
\* step, an overflow is reported exactly when the value is outside the
\* range of the type (u8, i8, u16, i16, u32, i32; none for the 64-bit types),
\* the value is stored truncated to the width of the type, and the loop
\* goes on with the next relocation.
C20_OverflowThroughWrite ==
  [][\A s \in Secs : \A i \in RelIndices(s) :
       (ApplyStep(s, i) /\ WritesThrough(s, i)) => RangeCheckedStore(s, i, 0, 0)]_vars

\* C20 as stated, for every relocation of a narrow type the applier computes
\* a value for: also the value a relaxed R_X86_64_TLSGD stores.
C20_OverflowEveryNarrowType ==
  [][\A s \in Secs : \A i \in RelIndices(s) :
       /\ (ApplyStep(s, i) /\ WritesThrough(s, i)) => RangeCheckedStore(s, i, 0, 0)
       /\ (ApplyStep(s, i) /\ PatchesField(s, i)) => RangeCheckedStore(s, i, 8, 1)]_vars

\* An R_X86_64_8 relocation of value 256 was reported out of range, its
\* byte is 256 mod 256, and the relocation after it was applied.
C20_Witness ==
  /\ pc = "written"
  /\ Len(isec[1].rels) = 2
  /\ RelAt(1, 0).r_type = R_X86_64_8
  /\ layout.sym_addr = U64(256)
  /\ [sec |-> 1, i |-> 0, msg |-> "out of range"] \in errors
  /\ SiteOf(buf[1], 1, 0) = <<0>>
  /\ <<1, 1>> \in applied
  /\ SiteOf(buf[1], 1, 1) = U64(256)

(***************************************************************************)
(* Symbol resolution: resolve_symbols and maybe_override_symbol, one       *)
(* thread per file, and archive liveness marking through the work-feeder.  *)
(* A global symbol is a name 1..NumNames, interned once for all files;     *)
(* every file has an ELF symbol for every name: undefined, weak undefined, *)
(* weak or strong.                                                         *)
(***************************************************************************)
ESymKinds == {"undef", "undef_weak", "weak", "strong"}
isDefined(esym) == esym \in {"weak", "strong"}

\* The variables of icf_sections and of the relocation phases but pc.
link_vars == <<priority, isec, obj_sections, sym_input_section, leader, icf_idx,
               sections, digests, slot, edge_indices, edges, num_classes, entries,
               rewritten, run, first_run, reloc_vars>>

\* The locked part of maybe_override_symbol, were the priorities compared
\* the other way round.
override_symbol_higher_priority(f, is_weak, sym, prio) ==
  LET is_new == sym.file = 0
      win == sym.is_placeholder \/ (sym.is_weak /\ ~is_weak)
      tie_but_higher_priority == ~is_new /\ ~win /\ prio[f] > prio[sym.file]
  IN IF is_new \/ win \/ tie_but_higher_priority
       THEN [file |-> f, is_placeholder |-> FALSE, is_weak |-> is_weak]
       ELSE sym

\* The locked part of maybe_override_symbol called by file f for an ELF
\* symbol of binding is_weak: the Symbol it leaves.
maybe_override_symbol(f, is_weak, sym, prio) ==
  LET is_new == sym.file = 0
      win == sym.is_placeholder \/ (sym.is_weak /\ ~is_weak)
      tie_but_higher_priority == ~is_new /\ ~win /\ prio[f] < prio[sym.file]
  IN IF is_new \/ win \/ tie_but_higher_priority
       THEN [file |-> f, is_placeholder |-> FALSE, is_weak |-> is_weak]
       ELSE sym

\* The locked part of the archive branch of resolve_symbols.
resolve_placeholder(f, sym, prio) ==
  LET is_new == sym.file = 0
      tie_but_higher_priority == sym.is_placeholder /\ prio[f] < prio[sym.file]
  IN IF is_new \/ tie_but_higher_priority
       THEN [sym EXCEPT !.file = f, !.is_placeholder = TRUE]
       ELSE sym

\* What one iteration of resolve_symbols in file f leaves of the Symbol.
resolve_symbol(f, esym, archived, sym, prio) ==
  IF archived THEN resolve_placeholder(f, sym, prio)
  ELSE maybe_override_symbol(f, esym = "weak", sym, prio)

\* The name the loop of file f is at, and the position after it.
NameAt(f) == resolve_pos[f] + 1
Advance(f) == [resolve_pos EXCEPT ![f] = @ + 1]

\* File f is in its loop, at a symbol whose iteration takes the lock: in
\* resolve_symbols every defined symbol, in mark_live_archive_members the
\* defined symbols of an archive member.
Running(f) ==
  \/ pc = "resolve"
  \/ pc = "mark_live" /\ \E k \in 1..Len(feeder) :
                           feeder[k].file = f /\ feeder[k].state = "running"
TakesLock(f) ==
  /\ Running(f)
  /\ resolve_pos[f] < NumNames
  /\ isDefined(esyms[f][NameAt(f)])
  /\ pc = "mark_live" => is_in_archive[f]

\* std::lock_guard lock(sym.mu).
LockSymbol(f) ==
  /\ TakesLock(f)
  /\ mu[NameAt(f)] = 0
  /\ mu' = [mu EXCEPT ![NameAt(f)] = f]
  /\ UNCHANGED <<pc, link_vars, comdat_vars, esyms, is_in_archive, gsym, resolve_pos, is_alive, feeder>>

\* resolve_symbols skips a symbol the file does not define.
SkipSymbol(f) ==
  /\ pc = "resolve"
  /\ resolve_pos[f] < NumNames
  /\ ~isDefined(esyms[f][NameAt(f)])
  /\ resolve_pos' = Advance(f)
  /\ UNCHANGED <<pc, link_vars, comdat_vars, esyms, is_in_archive, gsym, mu, is_alive, feeder>>

\* resolve_symbols, the locked part of an iteration and the release.
ResolveSymbol(f) ==
  /\ pc = "resolve"
  /\ resolve_pos[f] < NumNames
  /\ mu[NameAt(f)] = f
  /\ gsym' = [gsym EXCEPT ![NameAt(f)] =
                resolve_symbol(f, esyms[f][NameAt(f)], is_in_archive[f], @, priority)]
  /\ mu' = [mu EXCEPT ![NameAt(f)] = 0]
  /\ resolve_pos' = Advance(f)
  /\ UNCHANGED <<pc, link_vars, comdat_vars, esyms, is_in_archive, is_alive, feeder>>

\* Every file has resolved its symbols; the files given on the command
\* line are handed to the work-feeder.
ResolveDone ==
  /\ pc = "resolve"
  /\ \A f \in Files : resolve_pos[f] = NumNames
  /\ pc' = "mark_live"
  /\ feeder' = LET roots == {f \in Files : ~is_in_archive[f]}
                   RECURSIVE Items(_)
                   Items(f) == IF f > NumFiles THEN <<>>
                               ELSE (IF f \in roots
                                       THEN <<[file |-> f, state |-> "queued"]>> ELSE <<>>)
                                    \o Items(f + 1)
               IN Items(1)
  /\ UNCHANGED <<link_vars, comdat_vars, esyms, is_in_archive, gsym, mu, resolve_pos, is_alive>>

\* is_alive.exchange(true), were it a load: the flag is read and left.
exchange_load_only(alive, f) == [old |-> alive[f], new |-> alive]

\* is_alive.exchange(true) of file f: the value read and the flags left, in
\* one atomic step.
exchange(alive, f) == [old |-> alive[f], new |-> [alive EXCEPT ![f] = TRUE]]

\* A worker takes item k: `if (is_alive.exchange(true)) return;'.  An item
\* is queued, then either returned at once or running its loop and at last
\* marked.
EnterMember(k) ==
  /\ pc = "mark_live"
  /\ k \in 1..Len(feeder)
  /\ feeder[k].state = "queued"
  /\ LET f == feeder[k].file
         x == exchange(is_alive, f)
     IN /\ is_alive' = x.new
        /\ IF x.old
             THEN /\ feeder' = [feeder EXCEPT ![k].state = "returned"]
                  /\ UNCHANGED resolve_pos
             ELSE /\ feeder' = [feeder EXCEPT ![k].state = "running"]
                  /\ resolve_pos' = [resolve_pos EXCEPT ![f] = 0]
  /\ UNCHANGED <<pc, link_vars, comdat_vars, esyms, is_in_archive, gsym, mu>>

\* The item of the feeder whose worker runs the loop of file f.
ItemOf(f) == CHOOSE k \in 1..Len(feeder) : feeder[k].file = f /\ feeder[k].state = "running"

\* The feeder after the iteration of file f at its current symbol: the item
\* is done behind the last symbol.
AfterIteration(f, fd) ==
  IF resolve_pos[f] + 1 = NumNames THEN [fd EXCEPT ![ItemOf(f)].state = "marked"] ELSE fd

\* mark_live_archive_members, an iteration at a defined symbol: an archive
\* member overrides under the lock, another file goes on.
MarkDefined(f) ==
  /\ pc = "mark_live"
  /\ Running(f)
  /\ resolve_pos[f] < NumNames
  /\ isDefined(esyms[f][NameAt(f)])
  /\ IF is_in_archive[f]
       THEN /\ mu[NameAt(f)] = f
            /\ gsym' = [gsym EXCEPT ![NameAt(f)] =
                          maybe_override_symbol(f, esyms[f][NameAt(f)] = "weak", @, priority)]
            /\ mu' = [mu EXCEPT ![NameAt(f)] = 0]
       ELSE UNCHANGED <<gsym, mu>>
  /\ resolve_pos' = Advance(f)
  /\ feeder' = AfterIteration(f, feeder)
  /\ UNCHANGED <<pc, link_vars, comdat_vars, esyms, is_in_archive, is_alive>>

\* The test before feeder.add, were it never to hold.
Kept_nothing(f) == {}

\* The file the reference of file f at its current symbol keeps alive, as a
\* set: a strong reference to a symbol bound to an archive member that is
\* not alive.
Kept(f) ==
  LET sym == gsym[NameAt(f)]
  IN IF /\ esyms[f][NameAt(f)] # "undef_weak"
        /\ sym.file # 0
        /\ is_in_archive[sym.file]
        /\ ~is_alive[sym.file]
       THEN {sym.file} ELSE {}

\* mark_live_archive_members, an iteration at an undefined symbol:
\* feeder.add(sym.file).
MarkUndefined(f) ==
  /\ pc = "mark_live"
  /\ Running(f)
  /\ resolve_pos[f] < NumNames
  /\ ~isDefined(esyms[f][NameAt(f)])
  /\ feeder' = AfterIteration(f, feeder)
                 \o [k \in 1..Cardinality(Kept(f)) |->
                       [file |-> CHOOSE g \in Kept(f) : TRUE, state |-> "queued"]]
  /\ resolve_pos' = Advance(f)
  /\ UNCHANGED <<pc, link_vars, comdat_vars, esyms, is_in_archive, gsym, mu, is_alive>>

\* The feeder is drained.
MarkLiveDone ==
  /\ pc = "mark_live"
  /\ \A k \in 1..Len(feeder) : feeder[k].state \in {"returned", "marked"}
  /\ pc' = "resolved"
  /\ UNCHANGED <<link_vars, front_vars>>

\* The state before resolve_symbols: no symbol is bound, no file is alive.
ResolveInputs == [esyms : [Files -> [Names -> ESymKinds]], archived : [Files -> BOOLEAN]]

InitResolve ==
  /\ priority \in Priorities
  /\ \E in \in ResolveInputs : esyms = in.esyms /\ is_in_archive = in.archived
  /\ gsym = [n \in Names |-> NoSymbol]
  /\ mu = [n \in Names |-> 0]
  /\ resolve_pos = [f \in Files |-> 0]
  /\ is_alive = [f \in Files |-> FALSE]
  /\ feeder = <<>>
  /\ ComdatIdle
  /\ pc = "resolve"
  /\ isec = [s \in Secs |-> TextSec(s, <<1>>, <<>>)]
  /\ obj_sections = ParsedSections({})
  /\ sym_input_section = ParsedSymbols({})
  /\ leader = [s \in Secs |-> NullSec]
  /\ icf_idx = [s \in Secs |-> -1]
  /\ sections = <<>>
  /\ digests = <<<<>>, <<>>>>
  /\ slot = 0
  /\ edge_indices = <<>>
  /\ edges = <<>>
  /\ num_classes = 0
  /\ entries = <<>>
  /\ rewritten = {}
  /\ run = 1
  /\ first_run = NoFolding
  /\ config = [pie |-> FALSE, relax |-> FALSE]
  /\ sym_attr = [y \in Syms |-> DefinedFunc]
  /\ layout = NoLayout
  /\ RelocInit

NextResolve ==
  \/ \E f \in Files : LockSymbol(f)
  \/ \E f \in Files : SkipSymbol(f)
  \/ \E f \in Files : ResolveSymbol(f)
  \/ ResolveDone
  \/ \E k \in 1..Len(feeder) : EnterMember(k)
  \/ \E f \in Files : MarkDefined(f)
  \/ \E f \in Files : MarkUndefined(f)
  \/ MarkLiveDone

SpecResolve == InitResolve /\ [][NextResolve]_vars

(***************************************************************************)
(* Symbol resolution, read off a step or a state.                          *)
(***************************************************************************)
\* File f leaves maybe_override_symbol for name n in this step, having
\* assigned the symbol.
Rebinds(f, n) ==
  /\ mu[n] = f
  /\ mu'[n] = 0
  /\ pc = "mark_live" \/ ~is_in_archive[f]
  /\ gsym'[n] # gsym[n]

\* C21: maybe_override_symbol rebinds the symbol to the candidate file only
\* if the symbol is new, or its binding is a placeholder, or is weak while
\* the candidate is strong, or is of the candidate's class while the
\* candidate's file has the lower priority value; so a strong definition is
\* never replaced by a weak one.
C21_RebindsOnlyWhenEntitled ==
  [][\A f \in Files, n \in Names :
       Rebinds(f, n) =>
         LET cur == gsym[n]
             is_weak == esyms[f][n] = "weak"
         IN \/ cur.file = 0
            \/ cur.is_placeholder
            \/ cur.is_weak /\ ~is_weak
            \/ cur.is_weak = is_weak /\ priority[f] < priority[cur.file]]_vars

\* The Symbol of name n after the files 1..f took its lock in the order of
\* their numbers.
RECURSIVE ResolvedInOrder(_, _)
ResolvedInOrder(n, f) ==
  IF f = 0 THEN NoSymbol
  ELSE LET before == ResolvedInOrder(n, f - 1)
       IN IF isDefined(esyms[f][n])
            THEN resolve_symbol(f, esyms[f][n], is_in_archive[f], before, priority)
            ELSE before

\* C22: when every file has run resolve_symbols, the file a symbol is bound
\* to, and whether the binding is weak, do not depend on the order in which
\* the files took the symbol's lock: they are what the order 1, 2, ... leaves.
C22_BindingIndependentOfLockOrder ==
  (pc = "resolve" /\ \A f \in Files : resolve_pos[f] = NumNames) =>
    \A n \in Names : gsym[n] = ResolvedInOrder(n, NumFiles)

\* The items of the feeder that are for file f, and those whose worker went
\* past the exchange into the loop.
ItemsOf(f) == {k \in 1..Len(feeder) : feeder[k].file = f}
EnteredOf(f) == {k \in ItemsOf(f) : feeder[k].state \in {"running", "marked"}}

\* C24: with concurrent workers, is_alive.exchange(true) lets the loop of
\* mark_live_archive_members run at most once for a file, however often the
\* file was added to the work-feeder.
C24_MemberMarkedAtMostOnce ==
  \A f \in Files : Cardinality(EnteredOf(f)) <= 1

\* C24 as stated: an archive member is added to the work-feeder at most
\* once.
C24_MemberEnqueuedAtMostOnce ==
  \A f \in Files : is_in_archive[f] => Cardinality(ItemsOf(f)) <= 1

\* The feeder is drained; an archive member was added to it twice, one item
\* ran the loop and the other returned at the exchange.
C24_Witness ==
  /\ pc = "resolved"
  /\ \E f \in Files :
       /\ is_in_archive[f]
       /\ Cardinality(ItemsOf(f)) = 2
       /\ Cardinality(EnteredOf(f)) = 1
       /\ \E k \in ItemsOf(f) : feeder[k].state = "returned"

(***************************************************************************)
(* Comdat groups: eliminate_duplicate_comdat_groups, one thread per file,  *)
(* followed by icf_sections.  A group is a number 1..NumGroups, interned   *)
(* once for all files; the copy of group g in a file is a group section    *)
(* that follows the file's input sections in the section header table, and *)
(* whose one member is the section at the file's slot g.                   *)
(***************************************************************************)
\* The flag word a comdat group section starts with.
GRP_COMDAT == 1

\* The index of the group section of group g in file f, and the words of a
\* group section of file f: the flag word, then the member's index.
GroupSectionIdx(f, g) == Cardinality(SecsOf(f)) + g
GroupEntries(f, section_idx) == <<GRP_COMDAT, section_idx - Cardinality(SecsOf(f))>>

\* remove_comdat_members(section_idx) of file f: sections[i] = nullptr for
\* every word i of the group section.
remove_comdat_members(objs, f, section_idx) ==
  LET words == GroupEntries(f, section_idx)
  IN [objs EXCEPT ![f] = [j \in 1..Len(@) |->
        IF \E k \in 1..Len(words) : words[k] = j THEN NullSec ELSE @[j]]]

\* The locked part of an election, were the file of the higher priority
\* value to win.
comdat_elect_higher_priority(f, section_idx, gfile, gidx, prio) ==
  IF gfile = 0
    THEN [file |-> f, section_idx |-> section_idx, loser |-> 0, idx |-> 0]
  ELSE IF prio[gfile] > prio[f]
    THEN [file |-> gfile, section_idx |-> gidx, loser |-> f, idx |-> section_idx]
  ELSE [file |-> f, section_idx |-> section_idx, loser |-> gfile, idx |-> gidx]

\* The locked part of an election by file f: the group's fields it leaves,
\* and the file and section index remove_comdat_members is to be called
\* for (no file if the group was new).
comdat_elect(f, section_idx, gfile, gidx, prio) ==
  IF gfile = 0
    THEN [file |-> f, section_idx |-> section_idx, loser |-> 0, idx |-> 0]
  ELSE IF prio[gfile] < prio[f]
    THEN [file |-> gfile, section_idx |-> gidx, loser |-> f, idx |-> section_idx]
  ELSE [file |-> f, section_idx |-> section_idx, loser |-> gfile, idx |-> gidx]

\* What the steps of comdat elimination leave alone.
comdat_frame == <<priority, isec, sym_input_section, leader, icf_idx, sections, digests,
                  slot, edge_indices, edges, num_classes, entries, rewritten, run,
                  first_run, reloc_vars, resolve_vars, comdat_groups>>

\* The pair of comdat_groups the loop of file f is at.
PairAt(f) == comdat_groups[f][comdat_pos[f].k]
InLoop(f, at) ==
  /\ pc = "comdat"
  /\ comdat_pos[f].k <= Len(comdat_groups[f])
  /\ comdat_pos[f].at = at
NextPair(f) == [comdat_pos EXCEPT ![f] = [NoElection EXCEPT !.k = comdat_pos[f].k + 1]]

\* `ObjectFile *other = g->file' and the test that follows, without the lock.
ComdatPeek(f) ==
  /\ InLoop(f, "peek")
  /\ LET other == group_file[PairAt(f).g]
     IN comdat_pos' =
          IF other # 0 /\ priority[other] < priority[f]
            THEN [comdat_pos EXCEPT ![f].at = "remove", ![f].file = f,
                                    ![f].idx = PairAt(f).section_idx]
            ELSE [comdat_pos EXCEPT ![f].at = "lock"]
  /\ UNCHANGED <<pc, obj_sections, comdat_frame, group_file, group_section_idx, group_mu,
                 removed>>

\* std::lock_guard lock(g->mu).
ComdatLock(f) ==
  /\ InLoop(f, "lock")
  /\ group_mu[PairAt(f).g] = 0
  /\ group_mu' = [group_mu EXCEPT ![PairAt(f).g] = f]
  /\ comdat_pos' = [comdat_pos EXCEPT ![f].at = "elect"]
  /\ UNCHANGED <<pc, obj_sections, comdat_frame, group_file, group_section_idx, removed>>

\* The locked block and the release of the lock.
ComdatElect(f) ==
  /\ InLoop(f, "elect")
  /\ LET g == PairAt(f).g
         out == comdat_elect(f, PairAt(f).section_idx, group_file[g],
                             group_section_idx[g], priority)
     IN /\ group_file' = [group_file EXCEPT ![g] = out.file]
        /\ group_section_idx' = [group_section_idx EXCEPT ![g] = out.section_idx]
        /\ group_mu' = [group_mu EXCEPT ![g] = 0]
        /\ comdat_pos' = IF out.loser = 0 THEN NextPair(f)
                         ELSE [comdat_pos EXCEPT ![f].at = "remove", ![f].file = out.loser,
                                                 ![f].idx = out.idx]
  /\ UNCHANGED <<pc, obj_sections, comdat_frame, removed>>

\* file->remove_comdat_members(idx), called by the thread of file f.
ComdatRemove(f) ==
  /\ InLoop(f, "remove")
  /\ obj_sections' = remove_comdat_members(obj_sections, comdat_pos[f].file, comdat_pos[f].idx)
  /\ removed' = [removed EXCEPT ![comdat_pos[f].file][PairAt(f).g] = @ + 1]
  /\ comdat_pos' = NextPair(f)
  /\ UNCHANGED <<pc, comdat_frame, group_file, group_section_idx, group_mu>>

\* Every file is through its groups: icf_sections is called.
ComdatDone ==
  /\ pc = "comdat"
  /\ \A f \in Files : comdat_pos[f].k > Len(comdat_groups[f])
  /\ pc' = "gather"
  /\ UNCHANGED <<obj_sections, comdat_frame, group_file, group_section_idx, group_mu,
                 comdat_pos, removed>>

\* gather_sections meets an edge whose target has icf_idx -1: the assertion
\* aborts, or, compiled out, lets -1 into `edges' and what follows is
\* undefined.
GatherAssertFails ==
  /\ pc = "gather"
  /\ {s \in LiveSecs(obj_sections) : is_eligible(s)} # {}
  /\ UnnumberedTargets(obj_sections, sym_input_section) # {}
  /\ pc' \in {"aborted", "undefined"}
  /\ UNCHANGED <<obj_sections, comdat_frame, group_file, group_section_idx, group_mu,
                 comdat_pos, removed>>

(***************************************************************************)
(* The inputs of comdat elimination.  Every slot holds a section; the      *)
(* section at slot g of a file is the member of the file's copy of group g *)
(* if the file holds the group, a section of its own otherwise.  The       *)
(* copies of a group define one symbol, the global symbol of the copy in   *)
(* the first file that holds the group; symbol resolution has bound it to  *)
(* one of the copies.  The last section has at most one relocation.        *)
(***************************************************************************)
Holders(has, g) == {f \in Files : g \in has[f]}
FirstHolder(has, g) == CHOOSE f \in Holders(has, g) : \A h \in Holders(has, g) : f <= h

\* comdat_groups of a file that holds the groups S, as initialize_sections
\* fills it in: in the order of the group sections.
NthGroup(S, i) == CHOOSE g \in S : Cardinality({h \in S : h < g}) = i - 1
GroupsOf(f, S) ==
  [i \in 1..Cardinality(S) |->
     [g |-> NthGroup(S, i), section_idx |-> GroupSectionIdx(f, NthGroup(S, i))]]

\* The Symbol resolve_symbols leaves when the files F define it, in every
\* order the files can take its lock in.
RECURSIVE ResolveOutcomes(_, _, _, _)
ResolveOutcomes(F, weak, sym, prio) ==
  IF F = {} THEN {sym}
  ELSE UNION {ResolveOutcomes(F \ {f}, weak, maybe_override_symbol(f, weak[f], sym, prio), prio)
                : f \in F}

\* Symbol::input_section after resolution, bound[g] being the file the
\* symbol of group g was bound to.
ResolvedSymbols(has, bound) ==
  [y \in Syms |->
     IF \E f \in Files, g \in Groups : g \in has[f] /\ y = GlobalSym(SecAt(f, g))
       THEN LET f == CHOOSE h \in Files : \E g \in has[h] : y = GlobalSym(SecAt(h, g))
                g == CHOOSE h \in has[f] : y = GlobalSym(SecAt(f, h))
            IN IF f = FirstHolder(has, g) THEN SecAt(bound[g], g) ELSE NullSec
     ELSE ParsedSymbols(Secs)[y]]

LastOfFirst == SecAt(1, Cardinality(SecsOf(1)))
RelTo(s, i, sym) == [MkRel(s, i, "abs") EXCEPT !.r_sym = SymIdx(FileOf(s), sym)]
FrontTargets(s) == {GlobalSym(1), GlobalSym(NumFiles), LocalSym(SecAt(FileOf(s), 1))}

FrontSec(s, text, rels) ==
  IF text THEN [TextSec(s, <<get_section_idx(s)>>, <<>>) EXCEPT
                  !.rels = rels, !.has_fragments = [i \in 1..Len(rels) |-> FALSE]]
  ELSE DataSec(s)

FrontPrograms ==
  {[has |-> has, weak |-> [f \in Files |-> f \in weak],
    sec |-> [s \in Secs |-> FrontSec(s, text, IF s = LastOfFirst THEN rels ELSE <<>>)]]
     : has \in [Files -> SUBSET {g \in Groups : \A f \in Files : SecAt(f, g) \in Secs}],
       weak \in {{}, {1}}, text \in BOOLEAN,
       rels \in {<<>>} \cup {<<RelTo(LastOfFirst, 1, y)>> : y \in FrontTargets(LastOfFirst)}}

InitFront ==
  /\ priority \in Priorities
  /\ \E prog \in FrontPrograms :
       /\ isec = prog.sec
       /\ obj_sections = ParsedSections(Secs)
       /\ comdat_groups = [f \in Files |-> GroupsOf(f, prog.has[f])]
       /\ \E bound \in [Groups -> Files \cup {0}] :
            /\ \A g \in Groups :
                 bound[g] \in {o.file : o \in ResolveOutcomes(Holders(prog.has, g), prog.weak,
                                                              NoSymbol, priority)}
            /\ sym_input_section = ResolvedSymbols(prog.has, bound)
  /\ group_file = [g \in Groups |-> 0]
  /\ group_section_idx = [g \in Groups |-> 0]
  /\ group_mu = [g \in Groups |-> 0]
  /\ comdat_pos = [f \in Files |-> NoElection]
  /\ removed = [f \in Files |-> [g \in Groups |-> 0]]
  /\ ResolveIdle
  /\ pc = "comdat"
  /\ leader = [s \in Secs |-> NullSec]
  /\ icf_idx = [s \in Secs |-> -1]
  /\ sections = <<>>
  /\ digests = <<<<>>, <<>>>>
  /\ slot = 0
  /\ edge_indices = <<>>
  /\ edges = <<>>
  /\ num_classes = 0
  /\ entries = <<>>
  /\ rewritten = {}
  /\ run = 1
  /\ first_run = NoFolding
  /\ config = [pie |-> FALSE, relax |-> FALSE]
  /\ sym_attr = [y \in Syms |-> DefinedFunc]
  /\ layout = NoLayout
  /\ RelocInit

NextFront ==
  \/ \E f \in Files : ComdatPeek(f)
  \/ \E f \in Files : ComdatLock(f)
  \/ \E f \in Files : ComdatElect(f)
  \/ \E f \in Files : ComdatRemove(f)
  \/ ComdatDone
  \/ GatherAssertFails
  \/ Next

SpecFront == InitFront /\ [][NextFront]_vars

\* The files whose comdat_groups lists group g, and the one of them with
\* the smallest priority.
HoldersOf(g) == {f \in Files : \E k \in 1..Len(comdat_groups[f]) : comdat_groups[f][k].g = g}
BestHolder(g) == CHOOSE f \in HoldersOf(g) : \A h \in HoldersOf(g) : priority[f] <= priority[h]
ElectionsOver == pc # "comdat" /\ \A f \in Files : comdat_pos[f].k > Len(comdat_groups[f])

\* C23: once every file that holds a comdat group has run
\* eliminate_duplicate_comdat_groups, in whatever interleaving, the group's
\* recorded owner is the holder of the smallest priority, together with the
\* index of its group section; remove_comdat_members has been called for
\* the copy of every other holder, and never for the owner's copy.
C23_OwnerIsSmallestPriority ==
  ElectionsOver =>
    \A g \in Groups :
      HoldersOf(g) # {} =>
        /\ group_file[g] = BestHolder(g)
        /\ group_section_idx[g] = GroupSectionIdx(BestHolder(g), g)
        /\ \A f \in HoldersOf(g) \ {BestHolder(g)} : removed[f][g] >= 1
        /\ removed[BestHolder(g)][g] = 0

\* Both files hold a group, the elections are over, and the copy of the
\* file that came second in priority was removed.
C23_Witness ==
  /\ ElectionsOver
  /\ \E g \in Groups :
       /\ Cardinality(HoldersOf(g)) >= 2
       /\ group_file[g] = BestHolder(g)
       /\ \E f \in HoldersOf(g) \ {BestHolder(g)} :
            /\ removed[f][g] = 1
            /\ obj_sections[f][g] = NullSec

(***************************************************************************)
(* The parallel loops of icf_sections.                                     *)
(***************************************************************************)
\* The Symbols whose input_section the worker of file f writes, when it
\* reads them as the phase finds them.
SymbolsWrittenBy(f) ==
  {symbols(f)[i] : i \in {k \in 1..Len(symbols(f)) :
                            /\ sym_input_section[symbols(f)[k]] # NullSec
                            /\ leader[sym_input_section[symbols(f)[k]]] # NullSec}}

\* C25: while symbols are rewritten with one worker per file, no Symbol's
\* input_section is written by the workers of two files.
C25_NoSymbolWrittenByTwoWorkers ==
  (pc = "rewrite" /\ rewritten = {}) =>
    \A f \in Files, g \in Files :
      f # g => SymbolsWrittenBy(f) \cap SymbolsWrittenBy(g) = {}

(***************************************************************************)
(* The partition of .rela.dyn.                                             *)
(***************************************************************************)
\* The records section s was counted for by the scan, and the slots
\* (1-based) of its file's part of .rela.dyn that start at reldyn_offset.
CountedFor(s) ==
  Cardinality({i \in 1..Len(rel_types[s]) : rel_types[s][i] \in {"R_DYN", "R_ABS_DYN"}})
FirstRela(s) == reldyn_offset[s] \div ElfRelaSize
RelaRange(s) == (FirstRela(s) + 1)..(FirstRela(s) + CountedFor(s))

\* C26: .rela.dyn is partitioned.  The slot ranges of two sections of one
\* file never overlap; while the applier runs on a section its dynrel
\* pointer stays within the section's range; and when every section has
\* been copied, every slot of every range holds a record: a section writes
\* exactly as many records as it was counted for.
C26_RelaDynPartitioned ==
  /\ \A s \in Secs, t \in Secs :
       (s # t /\ FileOf(s) = FileOf(t)) => RelaRange(s) \cap RelaRange(t) = {}
  /\ (pc = "apply" /\ app.sec # NullSec /\ HasFlag(isec[app.sec].sh_flags, SHF_ALLOC)) =>
       /\ FirstRela(app.sec) <= app.dynrel
       /\ app.dynrel <= FirstRela(app.sec) + CountedFor(app.sec)
  /\ pc = "written" =>
       \A s \in Secs :
         \A k \in RelaRange(s) : reldyn[FileOf(s)][k] # NoRela

\* C27: in every propagation round the sections that hold equal digests
\* occupy contiguous icf_idx positions, so that count_num_classes, the
\* number of adjacent positions whose digests differ, is the number of
\* distinct digests among the eligible sections minus one.
C27_EqualDigestsAreContiguous ==
  pc \in {"propagate", "merge"} =>
    LET d == digests[slot + 1]
        n == Len(sections)
    IN /\ \A i \in 1..n, k \in 1..n :
            (i < k /\ d[i] = d[k]) => \A j \in i..k : d[j] = d[i]
       /\ count_num_classes(d, n) = Cardinality({d[i] : i \in 1..n}) - 1

\* C28: when the edge graph is built, the input section of the symbol of
\* every non-fragment relocation of an eligible section has been numbered
\* by gather_sections: the assertion at the edge build does not fail in a
\* state reached through symbol resolution and comdat elimination.
C28_EdgeTargetsAreNumbered ==
  /\ pc = "gather" => UnnumberedTargets(obj_sections, sym_input_section) = {}
  /\ pc # "aborted"

\* C29: also when no section is eligible, gather_sections indexes
\* section_indices, num_edges, edge_indices and edges within their bounds,
\* so that nothing undefined happens, and icf_sections folds nothing.
C29_GatherStaysInBounds ==
  {s \in LiveSecs(obj_sections) : is_eligible(s)} = {} =>
    /\ pc # "undefined"
    /\ \A s \in Secs : leader[s] = NullSec

\* C30: for an absolute relocation (R_X86_64_8, 16, 32, 32S or 64) in a
\* section that is not SHF_ALLOC, apply_reloc_nonalloc stores the value
\* apply_reloc_alloc stores for the kind R_ABS: S + A, the address of the
\* symbol (or fragment) plus the addend of the relocation (or of the
\* fragment reference).
C30_NonallocAbsWritesSPlusA ==
  [][\A s \in Secs : \A i \in RelIndices(s) :
       (/\ ApplyStep(s, i)
        /\ ~HasFlag(isec[s].sh_flags, SHF_ALLOC)
        /\ ~is_undefined(SymAt(s, i))
        /\ RelAt(s, i).r_type \in NonallocAbs) =>
         LET val == KindValue("R_ABS", RefAt(s, i, app.ref_idx), SymAt(s, i), RelAt(s, i))
             at == RelAt(s, i).r_offset
             w == WriteWidth(RelAt(s, i).r_type)
         IN SubSeq(buf'[s], at + 1, at + w) = SubSeq(val, 1, w)]_vars


\* The thread of file f calls remove_comdat_members in this step.
RemoveStep(f) ==
  /\ pc = "comdat"
  /\ comdat_pos[f].k <= Len(comdat_groups[f])
  /\ comdat_pos[f].at = "remove"
  /\ comdat_pos'[f] # comdat_pos[f]

\* The member sections a group section of file f lists: the words after the
\* leading flag word.
GroupMembers(f, section_idx) ==
  {GroupEntries(f, section_idx)[k] : k \in 2..Len(GroupEntries(f, section_idx))}

\* C31: remove_comdat_members(section_idx) sets to null exactly the slots of
\* the file's sections that are members of the group, the words after the
\* leading GRP_COMDAT flag word, and leaves every other slot of every file
\* as it was.
C31_RemovesExactlyTheMembers ==
  [][\A f \in Files :
       RemoveStep(f) =>
         \A h \in Files : \A j \in 1..Len(obj_sections[h]) :
           obj_sections'[h][j] =
             IF h = comdat_pos[f].file /\ j \in GroupMembers(h, comdat_pos[f].idx)
               THEN NullSec
               ELSE obj_sections[h][j]]_vars


(***************************************************************************)
(* The workers of the feeder run on: a thread that can take a step is not  *)
(* stopped for ever, and every lock is held for one iteration only.        *)
(***************************************************************************)
SpecResolveLive == InitResolve /\ [][NextResolve]_vars /\ WF_vars(NextResolve)

\* Every item of the feeder has been taken and has returned.
FeederDrained == \A k \in 1..Len(feeder) : feeder[k].state \in {"returned", "marked"}

\* The archive members a symbol is bound to that an alive file refers to by
\* an undefined reference that is not weak.
ReferencedMembers ==
  {gsym[n].file : n \in {m \in Names :
                           /\ gsym[m].file # 0
                           /\ is_in_archive[gsym[m].file]
                           /\ \E f \in Files : is_alive[f] /\ esyms[f][m] = "undef"}}

\* C32: archive liveness marking terminates with the work-feeder drained;
\* the loop over the symbols in mark_live_archive_members runs at most once
\* per file; and at the end every archive member to which a symbol is
\* bound that an alive file references through an undefined reference that
\* is not weak is alive.
C32_MarkLiveTerminatesAndKeeps ==
  /\ <>(pc = "resolved")
  /\ [](\A f \in Files : Cardinality(EnteredOf(f)) <= 1)
  /\ [](pc = "resolved" =>
          /\ FeederDrained
          /\ \A f \in ReferencedMembers : is_alive[f])

\* Marking is over; a file of the command line refers to a symbol bound to
\* an archive member, and the member was taken from the feeder, ran its
\* loop once and is alive.
C32_Witness ==
  /\ pc = "resolved"
  /\ \E f \in Files, m \in Files, n \in Names :
       /\ ~is_in_archive[f] /\ is_alive[f] /\ esyms[f][n] = "undef"
       /\ gsym[n].file = m /\ is_in_archive[m] /\ is_alive[m]
       /\ Cardinality(EnteredOf(m)) = 1
       /\ ~gsym[n].is_placeholder

=============================================================================
